---- MODULE Spec2Model ----
(***************************************************************************)
(* Document notarization API: path-safe storage of a content file with its *)
(* metadata sidecar and commitment artifact (app/main.py, app/utils.py),   *)
(* and the deferred notarization run that appends validation entries.      *)
(*                                                                         *)
(* A file name is a sequence of tokens ("a", ".txt", "-METADATA.JSON"), a  *)
(* path is a sequence of names, and the file system is a set of directory  *)
(* paths plus a function from file paths to contents.  SHA-256 is modelled *)
(* as an injective constructor over the hashed value.                      *)
(***************************************************************************)
EXTENDS Integers, Sequences, FiniteSets, TLC

VARIABLES
    dirs,       \* the directories that exist (absolute paths)
    files,      \* the regular files that exist: absolute path -> content
    runs,       \* the notarization runs handed to BackgroundTasks, in order
    ledger,     \* number of calls made to the remote transaction service
    clock,      \* source of datetime.utcnow()
    nUp,        \* upload requests handled so far
    nMut,       \* rename/move/delete requests handled so far
    last,       \* the request or run step handled last, with its outcome
    b4          \* the transaction service, the persisted manager
                \* configuration and the managers under construction

vars == <<dirs, files, runs, ledger, clock, nUp, nMut, last, b4>>

(* ------------------------------ bounds -------------------------------- *)
MaxUploads == 2
MaxMutations == 2
MaxAttempts == 3

(* --------------------------- names and paths -------------------------- *)
MJ == "-METADATA.JSON"
OC == "-ONCHAIN"
DotDot == <<"..">>
\* A JSON value that may be null is Null or Some(v).
Null == <<>>
Some(v) == <<v>>
NoEnt == << <<"ENOENT">> >>

MetaName(n) == n \o <<MJ>>
OnchainName(n) == n \o <<OC, MJ>>
EndsWith(n, suf) ==
    Len(n) >= Len(suf) /\ SubSeq(n, Len(n) - Len(suf) + 1, Len(n)) = suf
RemoveMJ(n) == SelectSeq(n, LAMBDA t : t # MJ)

Front(p) == SubSeq(p, 1, Len(p) - 1)
Last(p) == p[Len(p)]
Parent(p) == IF p = <<>> THEN <<>> ELSE Front(p)
IsPrefix(a, b) == Len(a) <= Len(b) /\ SubSeq(b, 1, Len(a)) = a
Prefixes(p) == {SubSeq(p, 1, k) : k \in 0..Len(p)}
Rebase(p, src, dst) == dst \o SubSeq(p, Len(src) + 1, Len(p))
WithSuffix(segs, suf) == Front(segs) \o << Last(segs) \o suf >>

Cwd == << <<"srv">> >>
Data == <<"DATA">>

\* Path.resolve(): ".." is folded lexically.
RECURSIVE Resolve(_, _)
Resolve(p, rel) ==
    IF rel = <<>> THEN p
    ELSE Resolve(IF Head(rel) = DotDot THEN Parent(p) ELSE Append(p, Head(rel)),
                 Tail(rel))

\* Path("DATA") / storage_id, and its resolve().
RootOf(sid) == <<Data>> \o sid
RootResolved(sid) == Resolve(Cwd, RootOf(sid))

(* ----------------------------- file system ---------------------------- *)
IsDir(fs, p) == p \in fs.d
IsFile(fs, p) == p \in DOMAIN fs.f
Exists(fs, p) == IsDir(fs, p) \/ IsFile(fs, p)

\* How the operating system walks an unresolved path: every component that
\* is stepped through must be an existing directory.
RECURSIVE OsLocate(_, _, _)
OsLocate(fs, p, segs) ==
    IF segs = <<>> THEN p
    ELSE IF ~IsDir(fs, p) THEN NoEnt
    ELSE OsLocate(fs,
                  IF Head(segs) = DotDot THEN Parent(p) ELSE Append(p, Head(segs)),
                  Tail(segs))

CanMkdirs(fs, p) == \A q \in Prefixes(p) : ~IsFile(fs, q)
Mkdirs(fs, p) == [fs EXCEPT !.d = @ \cup Prefixes(p)]

CanWrite(fs, p) == p # NoEnt /\ p # <<>> /\ IsDir(fs, Parent(p)) /\ ~IsDir(fs, p)
Write(fs, p, c) == [fs EXCEPT !.f = (p :> c) @@ @]
Unlink(fs, p) == [fs EXCEPT !.f = [q \in (DOMAIN @) \ {p} |-> @[q]]]

Under(fs, p) == {q \in fs.d \cup DOMAIN fs.f : IsPrefix(p, q)}
\* An rmdir that takes every directory for an empty one.
IsEmptyDirAlways(fs, p) == TRUE
IsEmptyDir(fs, p) == Under(fs, p) = {p}
Rmtree(fs, p) ==
    [d |-> {q \in fs.d : ~IsPrefix(p, q)},
     f |-> [q \in {r \in DOMAIN fs.f : ~IsPrefix(p, r)} |-> fs.f[q]]]
Relocate(fs, src, dst) ==
    LET movedD == {q \in fs.d : IsPrefix(src, q)}
        movedF == {q \in DOMAIN fs.f : IsPrefix(src, q)}
        keptF == {q \in DOMAIN fs.f : ~IsPrefix(src, q) /\ ~IsPrefix(dst, q)}
        newF == {Rebase(q, src, dst) : q \in movedF}
    IN  [d |-> ({q \in fs.d : ~IsPrefix(src, q) /\ ~IsPrefix(dst, q)})
                 \cup {Rebase(q, src, dst) : q \in movedD},
         f |-> [q \in keptF \cup newF |->
                  IF q \in newF THEN fs.f[Rebase(q, dst, src)] ELSE fs.f[q]]]

\* os.rename(src, dst) on resolved paths.
CanRename(fs, src, dst) ==
    /\ Exists(fs, src)
    /\ dst # <<>>
    /\ IsDir(fs, Parent(dst))
    /\ \/ src = dst
       \/ IsFile(fs, src) /\ ~IsDir(fs, dst)
       \/ /\ IsDir(fs, src)
          /\ ~IsFile(fs, dst)
          /\ ~IsPrefix(src, dst)
          /\ (IsDir(fs, dst) => IsEmptyDir(fs, dst))
OsRename(fs, src, dst) == IF src = dst THEN fs ELSE Relocate(fs, src, dst)

\* shutil.move(src, dst): an existing directory dst receives src inside it.
MoveDest(fs, src, dst) == IF IsDir(fs, dst) THEN Append(dst, Last(src)) ELSE dst
CanShutilMove(fs, src, dst) ==
    /\ src # <<>>
    /\ (IsDir(fs, dst) /\ src # dst => ~Exists(fs, MoveDest(fs, src, dst)))
    /\ CanRename(fs, src, IF src = dst THEN dst ELSE MoveDest(fs, src, dst))
ShutilMove(fs, src, dst) ==
    IF src = dst THEN fs ELSE OsRename(fs, src, MoveDest(fs, src, dst))

(* ------------------------------ contents ------------------------------ *)
Bytes(b) == [kind |-> "bytes", data |-> b]
JsonText(o, indent) == [kind |-> "json", obj |-> o, indent |-> indent]
Sha256(x) == <<"sha256", x>>
IsJson(c) == c.kind = "json"
Has(o, k) == k \in DOMAIN o
DictUpdate(m, c) ==
    [k \in (DOMAIN m) \cup (DOMAIN c) |-> IF k \in DOMAIN c THEN c[k] ELSE m[k]]
SetKey(o, k, v) == DictUpdate(o, [x \in {k} |-> v])

\* Path.suffix of a name (from its last dot on), then .lstrip(".") or "unknown".
ExtTokens == {".txt", ".TXT"}
DotTokens == ExtTokens \cup {MJ}
RECURSIVE Concat(_)
Concat(ts) == IF ts = <<>> THEN "" ELSE Head(ts) \o Concat(Tail(ts))
LastDot(n) ==
    LET ks == {k \in 1..Len(n) : n[k] \in DotTokens /\ (k > 1 \/ n[k] = MJ)}
    IN  IF ks = {} THEN 0 ELSE CHOOSE k \in ks : \A j \in ks : j <= k
ExtBody(t) ==
    CASE t = ".txt" -> "txt" [] t = ".TXT" -> "TXT" [] t = MJ -> "JSON"
FileType(n) ==
    IF LastDot(n) = 0 THEN "unknown"
    ELSE ExtBody(n[LastDot(n)]) \o Concat(SubSeq(n, LastDot(n) + 1, Len(n)))

(* ------------------------------- inputs -------------------------------- *)
Ns1 == << <<"ns1">> >>
Ns2 == << <<"ns2">> >>
SidUp == << DotDot >>
NameA == <<"a", ".txt">>
NameB == <<"b">>
DirD == <<"d">>
B1 == <<7>>
B2 == <<7, 8>>
Doc(b) == [valid |-> TRUE, bytes |-> b]
BadDoc == [valid |-> FALSE, bytes |-> <<>>]
NoExtras == <<>>
Extras == [author |-> "rossi"]
ForgedExtras ==
    [author |-> "rossi", document_hash |-> Sha256(Bytes(<<>>)), file_weight |-> 0,
     validations |-> << [type |-> "forged"] >>]
Algo == <<"algo">>

UploadReq(s, f, n, b, e, c) ==
    [storage_id |-> s, folder_path |-> f, file_name |-> n, document_base64 |-> b,
     metadata |-> e, selected_chain |-> c]
\* Requests of the notarization machine: one document uploaded again with
\* other bytes and with colliding extras, the network lists and an
\* undecodable body.
NotarizeInputs ==
    {UploadReq(Ns1, <<>>, <<NameA>>, Doc(B1), NoExtras, Algo),
     UploadReq(Ns1, <<>>, <<NameA>>, Doc(B2), ForgedExtras, Algo),
     UploadReq(Ns1, <<>>, <<NameA>>, Doc(B1), Extras, <<"ALGO">>),
     UploadReq(Ns1, <<>>, <<NameA>>, Doc(B1), Extras, <<"algo", "other">>),
     UploadReq(Ns1, <<>>, <<NameA>>, Doc(B1), NoExtras, <<"other">>),
     UploadReq(Ns1, <<>>, <<NameA>>, BadDoc, NoExtras, Algo)}
QueryReq(s, f, n, c) ==
    [storage_id |-> s, folder_path |-> f, file_name |-> n, selected_chain |-> c]
QueryInputs ==
    {QueryReq(Ns1, <<>>, <<NameA>>, Algo),
     QueryReq(Ns1, <<>>, <<NameA>>, <<"other">>)}

\* Requests of the storage machine: plain and nested documents, folder paths
\* and file names with "..", a second namespace and a storage_id of "..".
StorageUploads ==
    {UploadReq(Ns1, <<>>, <<NameA>>, Doc(B1), NoExtras, Algo),
     UploadReq(Ns1, <<>>, <<NameB>>, Doc(B2), NoExtras, Algo),
     UploadReq(Ns1, <<DirD>>, <<NameB>>, Doc(B1), NoExtras, Algo)}
    \cup {UploadReq(Ns1, f, <<NameA>>, Doc(B1), NoExtras, Algo) :
            f \in {<<DotDot>>, <<DirD, DotDot>>, <<NameB>>}}
    \cup {UploadReq(Ns1, <<>>, <<DotDot, NameB>>, Doc(B1), NoExtras, Algo),
          UploadReq(Ns2, <<>>, <<NameA>>, Doc(B2), NoExtras, Algo),
          UploadReq(SidUp, <<>>, <<NameB>>, Doc(B1), NoExtras, Algo)}
\* Requests of the storage browser: documents with a lower-case and an
\* upper-case extension, a nested one and one whose name ends in "-ONCHAIN";
\* the namespaces that are listed, one of them never written to.
NameUpper == <<"a", ".TXT">>
NameCOnchain == <<"c", OC>>
BrowseUploads ==
    {UploadReq(Ns1, <<>>, <<NameA>>, Doc(B1), NoExtras, Algo),
     UploadReq(Ns1, <<>>, <<NameUpper>>, Doc(B2), NoExtras, Algo),
     UploadReq(Ns1, <<DirD>>, <<NameB>>, Doc(B1), NoExtras, Algo),
     UploadReq(Ns1, <<>>, <<NameCOnchain>>, Doc(B1), NoExtras, Algo)}
ListInputs == {Ns1, Ns2}
\* Uploads of the machine in which requests interleave with the steps of a
\* run: one document in the namespace root and one in a folder.
RaceUploads ==
    {UploadReq(Ns1, <<>>, <<NameA>>, Doc(B1), NoExtras, Algo),
     UploadReq(Ns1, <<DirD>>, <<NameB>>, Doc(B2), NoExtras, Algo)}
\* The upload of the issuing machine.
IssueUploads == {UploadReq(Ns1, <<DirD>>, <<NameA>>, Doc(B1), NoExtras, Algo)}
\* Requests of the scenario-2 and scenario-3 endpoints: their bodies carry no
\* folder_path. A well-formed one, one naming a second network and one whose
\* body does not decode.
ScenarioReq(s, n, b, e, c) ==
    [storage_id |-> s, file_name |-> n, document_base64 |-> b,
     metadata |-> e, selected_chain |-> c]
ScenarioInputs ==
    {ScenarioReq(Ns1, <<NameA>>, Doc(B1), NoExtras, Algo),
     ScenarioReq(Ns1, <<NameB>>, Doc(B2), Extras, <<"ALGO">>),
     ScenarioReq(Ns1, <<NameA>>, Doc(B1), NoExtras, <<"algo", "other">>),
     ScenarioReq(Ns1, <<NameA>>, BadDoc, NoExtras, Algo)}
RenameReq(s, p, n) == [storage_id |-> s, path |-> p, new_name |-> n]
RenameInputs ==
    {RenameReq(Ns1, <<NameA>>, <<NameB>>),
     RenameReq(Ns1, <<NameB>>, <<NameA>>),
     RenameReq(Ns1, <<DirD>>, <<NameB>>),
     RenameReq(Ns1, <<>>, <<Ns2[1]>>),
     RenameReq(Ns1, <<DotDot, Ns2[1]>>, <<NameB>>),
     RenameReq(Ns1, <<NameA>>, <<DirD, NameA>>),
     RenameReq(Ns1, <<NameA>>, <<DotDot>>)}
MoveReq(s, p, d) == [storage_id |-> s, path |-> p, destination |-> d]
MoveInputs ==
    {MoveReq(Ns1, <<DirD, NameB>>, <<>>),
     MoveReq(Ns1, <<NameA>>, <<DirD>>),
     MoveReq(Ns1, <<DirD>>, <<NameB>>),
     MoveReq(Ns1, <<>>, <<DirD>>),
     MoveReq(Ns1, <<NameA>>, <<DotDot>>),
     MoveReq(Ns1, <<DotDot, Ns2[1], NameA>>, <<>>)}
DeleteReq(s, p, r) == [storage_id |-> s, path |-> p, recursive |-> r]
DeleteInputs ==
    {DeleteReq(Ns1, p, r) : p \in {<<>>, <<DirD>>}, r \in BOOLEAN}
    \cup {DeleteReq(Ns1, <<NameA>>, FALSE),
          DeleteReq(Ns1, <<DirD, NameB>>, FALSE),
          DeleteReq(Ns1, <<DotDot, Ns2[1]>>, TRUE)}

(* ------------------------ app/main.py: upload, query ------------------- *)
Lower(s) == CASE s = "ALGO" -> "algo" [] s = "Algo" -> "algo" [] OTHER -> s

\* A validator that looks at the first requested network only.
validate_first_only(selected_chains) ==
    selected_chains = <<>> \/ Lower(selected_chains[1]) = "algo"

\* TRUE when validate_blockchains returns, FALSE when it raises.
validate_blockchains(selected_chains) ==
    \A i \in 1..Len(selected_chains) : Lower(selected_chains[i]) = "algo"

\* The traversal guard shared by save_document_and_metadata, the query
\* endpoint and _safe_target: root.resolve() is p or one of p.parents.
InsideRoot(sid, p) == IsPrefix(RootResolved(sid), p)

safe_target(sid, relative) ==
    LET p == Resolve(Cwd, RootOf(sid) \o relative)
    IN  [ok |-> InsideRoot(sid, p), p |-> p]

\* A merge in which the caller's extras win over the computed fields.
NewMetadataExtrasWin(req, file_bytes, now) ==
    DictUpdate([document_hash |-> Sha256(Bytes(file_bytes)),
                storage_id |-> req.storage_id,
                folder_path |-> req.folder_path,
                file_name |-> req.file_name,
                file_weight |-> Len(file_bytes),
                file_type |-> FileType(Last(req.file_name)),
                upload_date |-> now,
                validations |-> <<>>],
               req.metadata)

NewMetadata(req, file_bytes, now) ==
    DictUpdate(req.metadata,
        [document_hash |-> Sha256(Bytes(file_bytes)),
         storage_id |-> req.storage_id,
         folder_path |-> req.folder_path,
         file_name |-> req.file_name,
         file_weight |-> Len(file_bytes),
         file_type |-> FileType(Last(req.file_name)),
         upload_date |-> now,
         validations |-> <<>>])

save_document_and_metadata(fs, req, now) ==
    LET file_bytes == req.document_base64.bytes
        target_dir == Resolve(Cwd, RootOf(req.storage_id) \o req.folder_path)
        fs1 == Mkdirs(fs, target_dir)
        file_path == OsLocate(fs1, target_dir, req.file_name)
        fs2 == Write(fs1, file_path, Bytes(file_bytes))
        meta_path == OsLocate(fs2, target_dir, WithSuffix(req.file_name, <<MJ>>))
        metadata == NewMetadata(req, file_bytes, now)
    IN  IF ~req.document_base64.valid THEN [result |-> "Error500", fs |-> fs]
        ELSE IF ~InsideRoot(req.storage_id, target_dir)
             THEN [result |-> "PathViolation", fs |-> fs]
        ELSE IF ~CanMkdirs(fs, target_dir) THEN [result |-> "Error500", fs |-> fs]
        ELSE IF ~CanWrite(fs1, file_path) THEN [result |-> "Error500", fs |-> fs1]
        ELSE IF ~CanWrite(fs2, meta_path) THEN [result |-> "Error500", fs |-> fs2]
        ELSE [result |-> "ok",
              fs |-> Write(fs2, meta_path, JsonText(metadata, 4)),
              info |-> [file_hash |-> metadata.document_hash,
                        file_weight |-> metadata.file_weight,
                        file_type |-> metadata.file_type,
                        upload_date |-> now]]

\* A run that is already over when the response is built.
NewRunInline(req) ==
    [storage_id |-> req.storage_id,
     relative_path |-> req.folder_path \o req.file_name,
     pc |-> "done", meta |-> <<>>, loaded |-> <<>>, appended |-> 0]

NewRun(req) ==
    [storage_id |-> req.storage_id,
     relative_path |-> req.folder_path \o req.file_name,
     pc |-> "queued", meta |-> <<>>, loaded |-> <<>>, appended |-> 0]

scenario1_notarize_document(fs, req, now) ==
    LET saved == save_document_and_metadata(fs, req, now)
    IN  IF ~validate_blockchains(req.selected_chain)
        THEN [result |-> "Unimplemented", fs |-> fs, tasks |-> <<>>]
        ELSE IF saved.result # "ok"
             THEN [result |-> saved.result, fs |-> saved.fs, tasks |-> <<>>]
        ELSE [result |-> "ok", fs |-> saved.fs, tasks |-> <<NewRun(req)>>,
              response |-> [success |-> TRUE, on_chain_validations |-> <<>>,
                            file_weight |-> saved.info.file_weight,
                            file_type |-> saved.info.file_type,
                            upload_date |-> saved.info.upload_date]]

scenario1_query_document_status(fs, req) ==
    LET target_dir == Resolve(Cwd, RootOf(req.storage_id) \o req.folder_path)
        meta_path == OsLocate(fs, target_dir, WithSuffix(req.file_name, <<MJ>>))
    IN  IF ~validate_blockchains(req.selected_chain) THEN [result |-> "Unimplemented"]
        ELSE IF ~InsideRoot(req.storage_id, target_dir) THEN [result |-> "PathViolation"]
        ELSE IF ~Exists(fs, meta_path) THEN [result |-> "NotFound"]
        ELSE IF ~IsFile(fs, meta_path) THEN [result |-> "Error500"]
        ELSE IF ~IsJson(fs.f[meta_path]) THEN [result |-> "Error500"]
        ELSE [result |-> "ok", data |-> fs.f[meta_path].obj]

\* The parameters of save_document_and_metadata; none has a default value.
SaveParameters ==
    {"document_base64", "file_name", "storage_id", "folder_path", "metadata"}

\* A keyword call of save_document_and_metadata: Python binds the arguments
\* before the body runs and raises TypeError when a parameter is left
\* without a value; the endpoint then answers 500 and nothing was written.
call_save_document_and_metadata(fs, kwargs, now) ==
    IF DOMAIN kwargs # SaveParameters
    THEN [result |-> "Error500", fs |-> fs]
    ELSE save_document_and_metadata(fs, kwargs, now)

ScenarioResponse(saved) ==
    [success |-> TRUE, on_chain_validations |-> <<>>,
     file_weight |-> saved.info.file_weight,
     file_type |-> saved.info.file_type,
     upload_date |-> saved.info.upload_date]

scenario2_notarize_document(fs, req, now) ==
    LET saved == call_save_document_and_metadata(fs,
                     [document_base64 |-> req.document_base64,
                      file_name |-> req.file_name,
                      storage_id |-> req.storage_id,
                      metadata |-> req.metadata], now)
    IN  IF ~validate_blockchains(req.selected_chain)
        THEN [result |-> "Unimplemented", fs |-> fs]
        ELSE IF saved.result # "ok" THEN [result |-> saved.result, fs |-> saved.fs]
        ELSE [result |-> "ok", fs |-> saved.fs, response |-> ScenarioResponse(saved)]

scenario3_notarize_document(fs, req, now) ==
    LET saved == call_save_document_and_metadata(fs,
                     [document_base64 |-> req.document_base64,
                      file_name |-> req.file_name,
                      storage_id |-> req.storage_id,
                      metadata |-> req.metadata], now)
    IN  IF ~validate_blockchains(req.selected_chain)
        THEN [result |-> "Unimplemented", fs |-> fs]
        ELSE IF saved.result # "ok" THEN [result |-> saved.result, fs |-> saved.fs]
        ELSE [result |-> "ok", fs |-> saved.fs, response |-> ScenarioResponse(saved)]

(* ------------------- app/utils.py: simulate_transaction ---------------- *)
NameOf(p) == IF p = <<>> THEN <<>> ELSE Last(p)
SidecarOf(p) == Append(Parent(p), MetaName(NameOf(p)))
ArtifactOf(p) == Append(Parent(p), OnchainName(NameOf(p)))
ContentPath(run) == safe_target(run.storage_id, run.relative_path).p

\* _read_metadata: TRUE when it returns a dictionary.
read_metadata_ok(fs, meta_path) == IsFile(fs, meta_path) /\ IsJson(fs.f[meta_path])

\* What _read_metadata hands to the run: the record on disk, or <<>> when the
\* run ends there.
sim_read(fs, run) ==
    IF /\ safe_target(run.storage_id, run.relative_path).ok
       /\ read_metadata_ok(fs, SidecarOf(ContentPath(run)))
    THEN fs.f[SidecarOf(ContentPath(run))].obj
    ELSE <<>>

\* A load that puts an empty record where it finds none.
sim_load_recreating(fs, run) ==
    LET meta_path == SidecarOf(ContentPath(run))
    IN  IF /\ safe_target(run.storage_id, run.relative_path).ok
           /\ read_metadata_ok(fs, meta_path)
        THEN [pc |-> "boot", outcome |-> "running", fs |-> fs,
              meta |-> fs.f[meta_path].obj, loaded |-> TRUE]
        ELSE [pc |-> "done", outcome |-> "no_metadata",
              fs |-> IF CanWrite(fs, meta_path)
                     THEN Write(fs, meta_path, JsonText(<<>>, 4)) ELSE fs,
              meta |-> <<>>, loaded |-> FALSE]
\* Lines 205-225: locate the files, load the sidecar, make up a missing hash.
sim_load(fs, run) ==
    LET content_path == ContentPath(run)
        meta_path == SidecarOf(content_path)
        meta == fs.f[meta_path].obj
        hashed == SetKey(meta, "document_hash", Sha256(fs.f[content_path]))
    IN  IF ~safe_target(run.storage_id, run.relative_path).ok
        THEN [pc |-> "done", outcome |-> "PathViolation", fs |-> fs, meta |-> <<>>,
              loaded |-> FALSE]
        ELSE IF ~read_metadata_ok(fs, meta_path)
        THEN [pc |-> "done", outcome |-> "no_metadata", fs |-> fs, meta |-> <<>>,
              loaded |-> FALSE]
        ELSE IF Has(meta, "document_hash")
        THEN [pc |-> "boot", outcome |-> "running", fs |-> fs, meta |-> meta,
              loaded |-> TRUE]
        ELSE IF ~IsFile(fs, content_path)
        THEN [pc |-> "done", outcome |-> "no_content", fs |-> fs, meta |-> meta,
              loaded |-> TRUE]
        ELSE [pc |-> "boot", outcome |-> "running",
              fs |-> Write(fs, meta_path, JsonText(hashed, 4)), meta |-> hashed,
              loaded |-> TRUE]

\* Lines 227-231 with B4AssetManager.__init__: the stage of the bootstrap that
\* raises, or "ok".  Any raise makes simulate_transaction return.
BootOutcomes == {"login", "dapp", "jwt", "wallet", "funding", "ok"}
get_asset_manager(outcome) ==
    IF outcome = "ok" THEN [pc |-> "commit", outcome |-> "running"]
    ELSE [pc |-> "done", outcome |-> "bootstrap_failed"]

\* Lines 239-257: the commitment payload, its hash, and the artifact on disk.
\* indent 0 stands for json.dumps without indent.
\* A payload that also carries the time of the run.
OnchainMetaStamped(run) ==
    [hash |-> run.meta.document_hash,
     storage_id |-> run.storage_id,
     path |-> run.relative_path,
     file |-> <<NameOf(ContentPath(run))>>,
     time |-> clock]
OnchainMeta(run) ==
    [hash |-> run.meta.document_hash,
     storage_id |-> run.storage_id,
     path |-> run.relative_path,
     file |-> <<NameOf(ContentPath(run))>>]
CommitmentHash(run) == Sha256(JsonText(OnchainMeta(run), 0))
sim_commit(fs, run) ==
    IF CanWrite(fs, ArtifactOf(ContentPath(run)))
    THEN Write(fs, ArtifactOf(ContentPath(run)), JsonText(OnchainMeta(run), 4))
    ELSE fs

\* An extraction that looks for "asset_id" before "asset-index".
extract_asset_id_swapped(resp) ==
    IF Has(resp, "asset_id") THEN [ok |-> TRUE, id |-> resp["asset_id"]]
    ELSE IF Has(resp, "asset-index") THEN [ok |-> TRUE, id |-> resp["asset-index"]]
    ELSE IF Has(resp, "asset") /\ Has(resp["asset"], "index")
         THEN [ok |-> TRUE, id |-> resp["asset"]["index"]]
    ELSE [ok |-> FALSE, id |-> 0]
\* _extract_asset_id: the strategies in order.
extract_asset_id(resp) ==
    IF Has(resp, "asset-index") THEN [ok |-> TRUE, id |-> resp["asset-index"]]
    ELSE IF Has(resp, "asset_id") THEN [ok |-> TRUE, id |-> resp["asset_id"]]
    ELSE IF Has(resp, "asset") /\ Has(resp["asset"], "index")
         THEN [ok |-> TRUE, id |-> resp["asset"]["index"]]
    ELSE [ok |-> FALSE, id |-> 0]

CreatorAddress == "ADDR"
SuccessEntry(run, resp, now) ==
    [network |-> "algo", type |-> "asa_mint", timestamp |-> Some(now),
     asset_id |-> extract_asset_id(resp).id,
     addresses |-> [creator |-> CreatorAddress],
     metadata_sha256_hex |-> CommitmentHash(run),
     onchain_metadata_file |-> OnchainName(NameOf(ContentPath(run))),
     raw |-> resp,
     txid |-> Some(extract_asset_id(resp).id),
     sender |-> Some(CreatorAddress), receiver |-> Some(CreatorAddress),
     note |-> Some("notarization"), round_time |-> now]

\* An error entry that carries ledger identifiers.
ErrorEntryWithIds(type, now) ==
    [network |-> "algo", type |-> type, error |-> "message", timestamp |-> Some(now),
     asset_id |-> 0, txid |-> Some(0), sender |-> Some(CreatorAddress),
     receiver |-> Some(CreatorAddress), note |-> Null, round_time |-> now]

ErrorEntry(type, now) ==
    [network |-> "algo", type |-> type, error |-> "message", timestamp |-> Some(now),
     txid |-> Null, sender |-> Null, receiver |-> Null, note |-> Null,
     round_time |-> now]

\* What mgr.create_asset does: "api_error" is an ApiError raised by the funding
\* loop or by the submission, otherwise the response of the backend.
MintResponse == [k \in {"asset-index"} |-> 1001]
Responses ==
    {MintResponse,
     [k \in {"asset_id"} |-> 1002],
     [k \in {"asset"} |-> [index |-> 1003]],
     [k \in {"message"} |-> "pending"]}
AllSubmitOutcomes == {[kind |-> "api_error", resp |-> <<>>]}
                     \cup {[kind |-> "response", resp |-> r] : r \in Responses}
SubmitOutcomes ==
    {o \in AllSubmitOutcomes : o.resp \in {<<>>, MintResponse, [k \in {"message"} |-> "pending"]}}

AppendValidation(meta, entry) ==
    SetKey(meta, "validations",
           Append(IF Has(meta, "validations") THEN meta.validations ELSE <<>>, entry))

\* Lines 263-395: submission, the validation entry, and its persistence.
sim_entry(run, outcome, now) ==
    IF outcome.kind = "api_error" THEN ErrorEntry("asa_mint_error", now)
    ELSE IF ~extract_asset_id(outcome.resp).ok THEN ErrorEntry("unexpected_error", now)
    ELSE SuccessEntry(run, outcome.resp, now)
sim_submit(fs, run, outcome, now) ==
    LET meta_path == SidecarOf(ContentPath(run))
        meta == AppendValidation(run.meta, sim_entry(run, outcome, now))
    IN  IF CanWrite(fs, meta_path)
        THEN [fs |-> Write(fs, meta_path, JsonText(meta, 4)), meta |-> meta,
              appended |-> 1]
        ELSE [fs |-> fs, meta |-> meta, appended |-> 0]

\* simulate_transaction from its first line to its last, for a run that no
\* request interleaves with.
simulate_transaction(fs, run, boot, outcome, now) ==
    LET l == sim_load(fs, run)
        loaded == [run EXCEPT !.meta = l.meta, !.loaded = sim_read(fs, run)]
        s == sim_submit(sim_commit(l.fs, loaded), loaded, outcome, now)
    IN  IF l.pc = "done" \/ get_asset_manager(boot).pc = "done"
        THEN [fs |-> l.fs, run |-> [loaded EXCEPT !.pc = "done"],
              calls |-> IF l.pc = "done" THEN 0 ELSE 1]
        ELSE [fs |-> s.fs,
              run |-> [loaded EXCEPT !.pc = "done", !.meta = s.meta,
                                     !.appended = s.appended],
              calls |-> 2]

(* --------------- app/utils.py: rename, move, delete, resync ------------ *)
IsMetaName(n) == EndsWith(n, <<MJ>>) /\ ~EndsWith(n, <<OC, MJ>>)

\* One sidecar as refresh_metadata_paths leaves it; root is the directory that
\* Path("DATA") / storage_id names.
RefreshedFile(fs, root, q) ==
    LET content_path == Append(Parent(q), RemoveMJ(Last(q)))
        data == fs.f[q].obj
        folder_rel == SubSeq(Parent(content_path), Len(root) + 1, Len(q) - 1)
        fixed == DictUpdate(data, [folder_path |-> folder_rel,
                                   file_name |-> <<Last(content_path)>>])
    IN  IF /\ IsMetaName(Last(q))
           /\ IsJson(fs.f[q])
           /\ RemoveMJ(Last(q)) # <<>>
           /\ Exists(fs, content_path)
           /\ fixed # data
        THEN JsonText(fixed, 4)
        ELSE fs.f[q]

refresh_metadata_paths(fs, sid) ==
    LET root == OsLocate(fs, Cwd, RootOf(sid))
    IN  IF ~Exists(fs, root) THEN fs
        ELSE [fs EXCEPT !.f = [q \in DOMAIN fs.f |->
                 IF IsPrefix(root, q) /\ q # root
                 THEN RefreshedFile(fs, root, q) ELSE fs.f[q]]]

\* The sidecar part of rename_item and move_item: carry the sidecar and the
\* artifact of old over to new, then rewrite the fields of the sidecar.
CanCarry(fs, src, dst, shutil) ==
    IF shutil THEN CanShutilMove(fs, src, dst) ELSE CanRename(fs, src, dst)
Carry(fs, src, dst, shutil) ==
    IF shutil THEN ShutilMove(fs, src, dst) ELSE OsRename(fs, src, dst)
CarrySidecars(fs, old, new, fields, shutil) ==
    LET meta_old == SidecarOf(old)
        meta_new == SidecarOf(new)
        onchain_old == ArtifactOf(old)
        onchain_new == ArtifactOf(new)
        fs1 == IF Exists(fs, meta_old) THEN Carry(fs, meta_old, meta_new, shutil)
               ELSE fs
        fs2 == IF Exists(fs1, onchain_old)
               THEN Carry(fs1, onchain_old, onchain_new, shutil)
               ELSE fs1
        data == DictUpdate(fs2.f[meta_new].obj, fields)
    IN  IF Exists(fs, meta_old) /\ ~CanCarry(fs, meta_old, meta_new, shutil)
        THEN [result |-> "Error500", fs |-> fs]
        ELSE IF Exists(fs1, onchain_old)
                /\ ~CanCarry(fs1, onchain_old, onchain_new, shutil)
        THEN [result |-> "Error500", fs |-> fs1]
        ELSE IF ~Exists(fs2, meta_new) THEN [result |-> "ok", fs |-> fs2]
        ELSE IF ~IsFile(fs2, meta_new) THEN [result |-> "Error500", fs |-> fs2]
        ELSE IF ~IsJson(fs2.f[meta_new]) THEN [result |-> "Error500", fs |-> fs2]
        ELSE [result |-> "ok", fs |-> Write(fs2, meta_new, JsonText(data, 4))]

\* Path.with_name accepts a single component only; ".." passes it and is then
\* refused by the operating system.
rename_item(fs, req) ==
    LET t == safe_target(req.storage_id, req.path)
        target == t.p
        new_path == Append(Parent(target), req.new_name[1])
        fs1 == OsRename(fs, target, new_path)
    IN  IF ~t.ok THEN [result |-> "PathViolation", fs |-> fs]
        ELSE IF Len(req.new_name) # 1 \/ target = <<>>
        THEN [result |-> "Error500", fs |-> fs]
        ELSE IF req.new_name[1] = DotDot \/ ~CanRename(fs, target, new_path)
        THEN [result |-> "Error500", fs |-> fs]
        ELSE IF ~IsFile(fs1, new_path) THEN [result |-> "ok", fs |-> fs1]
        ELSE CarrySidecars(fs1, target, new_path,
                           [file_name |-> <<Last(new_path)>>], FALSE)

move_item(fs, req) ==
    LET s == safe_target(req.storage_id, req.path)
        d == safe_target(req.storage_id, req.destination)
        source == s.p
        destination_dir == d.p
        fs1 == Mkdirs(fs, destination_dir)
        new_path == Append(destination_dir, NameOf(source))
        fs2 == ShutilMove(fs1, source, new_path)
    IN  IF ~s.ok \/ ~d.ok THEN [result |-> "PathViolation", fs |-> fs]
        ELSE IF ~CanMkdirs(fs, destination_dir) THEN [result |-> "Error500", fs |-> fs]
        ELSE IF ~CanShutilMove(fs1, source, new_path)
        THEN [result |-> "Error500", fs |-> fs1]
        ELSE IF ~IsFile(fs2, new_path) THEN [result |-> "ok", fs |-> fs2]
        ELSE CarrySidecars(fs2, source, new_path,
                           [folder_path |-> req.destination,
                            file_name |-> <<Last(new_path)>>],
                           TRUE)

\* A deletion that leaves the companion files where they are.
UnlinkSkipped(r, p) == r

UnlinkIfExists(r, p) ==
    IF r.result # "ok" \/ ~Exists(r.fs, p) THEN r
    ELSE IF IsDir(r.fs, p) THEN [result |-> "Error500", fs |-> r.fs]
    ELSE [result |-> "ok", fs |-> Unlink(r.fs, p)]

delete_item(fs, req) ==
    LET t == safe_target(req.storage_id, req.path)
        target == t.p
    IN  IF ~t.ok THEN [result |-> "PathViolation", fs |-> fs]
        ELSE IF IsDir(fs, target)
        THEN IF req.recursive THEN [result |-> "ok", fs |-> Rmtree(fs, target)]
             ELSE IF IsEmptyDir(fs, target) /\ target # <<>>
                  THEN [result |-> "ok", fs |-> Rmtree(fs, target)]
             ELSE [result |-> "DirectoryNotEmpty", fs |-> fs]
        ELSE IF IsFile(fs, target)
        THEN UnlinkIfExists(
                 UnlinkIfExists([result |-> "ok", fs |-> Unlink(fs, target)],
                                SidecarOf(target)),
                 ArtifactOf(target))
        ELSE [result |-> "NotFound", fs |-> fs]

\* The endpoints: rename and move resynchronize when the operation returned.
WithRefresh(r, sid) ==
    IF r.result = "ok" THEN [result |-> "ok", fs |-> refresh_metadata_paths(r.fs, sid)]
    ELSE r
storage_rename(fs, req) == WithRefresh(rename_item(fs, req), req.storage_id)
storage_move(fs, req) == WithRefresh(move_item(fs, req), req.storage_id)
storage_delete(fs, req) == delete_item(fs, req)

\* list_files_with_metadata: the paths under the namespace root that match
\* "*-METADATA.JSON" and do not end in "-ONCHAIN-METADATA.JSON".  The result
\* is given as the set of its entries; a sidecar that cannot be read as JSON
\* is listed under its own relative path.
UnreadableEntry == [error |-> "metadata file unreadable"]
ListEntry(fs, root_dir, meta_path) ==
    LET rel == SubSeq(meta_path, Len(root_dir) + 1, Len(meta_path))
    IN  IF read_metadata_ok(fs, meta_path)
        THEN [key |-> Append(Front(rel), Front(Last(rel))),
              value |-> fs.f[meta_path].obj]
        ELSE [key |-> rel, value |-> UnreadableEntry]
list_files_with_metadata(fs, sid) ==
    LET root_dir == OsLocate(fs, Cwd, RootOf(sid))
        found == {q \in Under(fs, root_dir) : q # root_dir /\ IsMetaName(Last(q))}
    IN  IF ~Exists(fs, root_dir) THEN [result |-> "NotFound", entries |-> {}]
        ELSE [result |-> "ok",
              entries |-> {ListEntry(fs, root_dir, q) : q \in found}]
storage_list_all(fs, sid) == list_files_with_metadata(fs, sid)

(* ------------ asset_manager/b4dapp_asset_manager.py: funding ----------- *)
\* The manager's configured thresholds (microAlgo) when the environment sets
\* none.
DEFAULT_MIN_BALANCE == 5000000
DEFAULT_TOPUP_AMOUNT == 10000000

\* "x or default": None and 0 both give the default.
OrElse(x, default) == IF x = Null \/ x = Some(0) THEN default ELSE x[1]

\* The transaction service during one call: the wallet's balance at the start,
\* what happens to the k-th funding request ("credited": accepted and the
\* amount is on the balance at the next read; "accepted": accepted, balance
\* unchanged; "rejected": the request is refused or the service cannot be
\* reached), and which balance query fails (0: none).
FundOutcomes == {"credited", "accepted", "rejected"}
Services ==
    [start : {0, 100},
     fund : [1..(MaxAttempts + 1) -> FundOutcomes],
     failed_read : {0, 2}]
EnsureFundedInputs ==
    [service : Services,
     min_balance : {Null, Some(0), Some(100)},
     topup_amount : {Null, Some(0), Some(50)},
     max_attempts : 0..MaxAttempts]

ReadEvent(bal, k, service) ==
    [ev |-> "read", n |-> bal,
     outcome |-> IF service.failed_read = k THEN "error" ELSE "ok"]
FundEvent(amount, k, service) == [ev |-> "fund", n |-> amount, outcome |-> service.fund[k]]

\* A balance query whose failure goes unnoticed: the balance is reported.
get_balance_unfailing(service, wallet, k) == wallet
\* get_balance: an ApiError of the balance query reads as 0.
get_balance(service, wallet, k) == IF service.failed_read = k THEN 0 ELSE wallet

\* fund_wallet: the response of the dispenser, or the ApiError of _post.
fund_wallet(service, wallet, amount, k) ==
    CASE service.fund[k] = "credited" -> [raised |-> FALSE, wallet |-> wallet + amount]
      [] service.fund[k] = "accepted" -> [raised |-> FALSE, wallet |-> wallet]
      [] service.fund[k] = "rejected" -> [raised |-> TRUE, wallet |-> wallet]

\* The loop of ensure_funded from the round numbered attempts on, and the read
\* after the loop.
\* A loop guard that allows one round more.
ShouldRetryOnceMore(attempts, max_attempts) == attempts <= max_attempts
ShouldRetry(attempts, max_attempts) == attempts < max_attempts
RECURSIVE FundingLoop(_, _, _, _, _, _, _)
FundingLoop(service, min_bal, topup, max_attempts, attempts, wallet, events) ==
    LET k == attempts + 1
        bal == get_balance(service, wallet, k)
        read == ReadEvent(bal, k, service)
        funded == fund_wallet(service, wallet, topup, k)
        request == FundEvent(topup, k, service)
    IN  IF ~ShouldRetry(attempts, max_attempts)
        THEN [raised |-> FALSE, balance |-> bal, events |-> Append(events, read)]
        ELSE IF bal >= min_bal
        THEN [raised |-> FALSE, balance |-> bal, events |-> Append(events, read)]
        ELSE IF funded.raised
        THEN [raised |-> TRUE, balance |-> bal, events |-> events \o <<read, request>>]
        ELSE FundingLoop(service, min_bal, topup, max_attempts, attempts + 1,
                         funded.wallet, events \o <<read, request>>)

ensure_funded(service, min_balance, topup_amount, max_attempts) ==
    FundingLoop(service,
                OrElse(min_balance, DEFAULT_MIN_BALANCE),
                OrElse(topup_amount, DEFAULT_TOPUP_AMOUNT),
                max_attempts, 0, service.start, <<>>)

(* --------- app/utils.py and b4dapp_asset_manager.py: issuance ---------- *)
\* hashlib's hexdigest() and base64.b64encode of a digest: two texts of it.
HexDigest(d) == [kind |-> "hex", digest |-> d]
B64Digest(d) == [kind |-> "b64", digest |-> d]
\* _build_onchain_metadata_url: the public base address, the endpoint, the
\* namespace and the quoted relative path.
build_onchain_metadata_url(storage_id, relative_path) ==
    [kind |-> "url", endpoint |-> "metadata-onchain", storage_id |-> storage_id,
     path |-> relative_path]
Literal(t) == [kind |-> "text", text |-> t]

\* B4AssetManager.create_asset with roles_mode "self" and no threshold
\* override: the funding loop, whose result is dropped, then one
\* asset_create_txn request.  backend is what the service does with the
\* request.  sent is what went to /algo/asset_create_txn.
create_asset(service, sender, asa, backend) ==
    LET funded == ensure_funded(service, Some(DEFAULT_MIN_BALANCE),
                                Some(DEFAULT_TOPUP_AMOUNT), MaxAttempts)
        payload == [sender_address |-> sender, total |-> asa.total,
                    strict_empty_address_check |-> TRUE,
                    default_frozen |-> asa.default_frozen,
                    unit_name |-> asa.unit_name, asset_name |-> asa.asset_name,
                    manager_address |-> sender, reserve_address |-> sender,
                    freeze_address |-> sender, clawback_address |-> sender,
                    metadata_url |-> asa.metadata_url, metadata |-> asa.metadata,
                    decimals |-> asa.decimals, note |-> asa.note]
    IN  IF funded.raised
        THEN [outcome |-> [kind |-> "api_error", resp |-> <<>>],
              events |-> funded.events, balance |-> funded.balance, sent |-> <<>>]
        ELSE [outcome |-> backend, events |-> funded.events,
              balance |-> funded.balance, sent |-> <<payload>>]

\* Lines 233-237 and 259-395 of simulate_transaction: the fields of the
\* asset, the call of create_asset, and the validation entry it leaves.
sim_issue(fs, run, service, backend, now) ==
    LET metadata_url == build_onchain_metadata_url(run.storage_id, run.relative_path)
        asa == [unit_name |-> [kind |-> "unit", seed |-> run.meta.document_hash],
                asset_name |-> [kind |-> "stem", of |-> NameOf(ContentPath(run))],
                total |-> 1, decimals |-> 0, default_frozen |-> FALSE,
                note |-> metadata_url, metadata_url |-> Literal("$note"),
                metadata |-> JsonText(OnchainMeta(run), 0)]
        c == create_asset(service, CreatorAddress, asa, backend)
        s == sim_submit(fs, run, c.outcome, now)
    IN  [fs |-> s.fs, meta |-> s.meta, appended |-> s.appended,
         entry |-> sim_entry(run, c.outcome, now),
         events |-> c.events, balance |-> c.balance, sent |-> c.sent]

\* The answers of the backend to the request: every shape of the asset
\* identifier, alone and in pairs.
PairedResponses ==
    {[k \in {"asset-index", "asset_id"} |-> IF k = "asset_id" THEN 1002 ELSE 1001],
     [k \in {"asset_id", "asset"} |-> IF k = "asset_id" THEN 1002
                                      ELSE [index |-> 1003]]}
IssueOutcomes ==
    AllSubmitOutcomes \cup {[kind |-> "response", resp |-> r] : r \in PairedResponses}

(* ----------- asset_manager/b4dapp_asset_manager.py: bootstrap ----------- *)
\* Two managers: simulate_transaction constructs one per run, all over the
\* same config_path.
Managers == {"A", "B"}

\* A manager: where __init__ stands, self.state, whether the client holds a
\* session token and an access token, and the remote calls made so far.
IdleManager ==
    [pc |-> "idle", state |-> <<>>, session |-> FALSE, access |-> FALSE,
     calls |-> <<>>]

\* Names: the application and address a previous process bound, the random
\* names a manager makes up, and the address the service generates next.
AppP == <<"dapp", "P">>
AddressP == "addr_p"
AddressOld == "addr_old"
GeneratedAddresses == <<"addr_1", "addr_2", "addr_3">>
LabelP == <<"address", "P">>
NewAppName(id) == <<"dapp", id>>
NewLabel(id) == <<"address", id>>
NewAddress(w) == GeneratedAddresses[Len(w.addresses) + 1]
KeysOf(app_name) ==
    [app_name |-> app_name, dapp_id |-> <<"id", app_name>>,
     secret_key |-> <<"secret", app_name>>, blockchain |-> "ALGO"]
Row(address, label, app_name) ==
    [address |-> address, label |-> label, app |-> app_name]

\* The world of a manager: the content of the file at config_path (<<>> when
\* it is missing), the applications the service has registered and the
\* addresses it lists, oldest first.
FreshWorld == [config |-> <<>>, apps |-> {}, addresses |-> <<>>]
BoundConfig == DictUpdate(KeysOf(AppP), [address |-> AddressP, label |-> LabelP])
Worlds ==
    {FreshWorld,
     [config |-> BoundConfig, apps |-> {AppP},
      addresses |-> <<Row(AddressP, LabelP, AppP)>>],
     [config |-> BoundConfig, apps |-> {AppP},
      addresses |-> <<Row(AddressOld, LabelP, AppP)>>],
     [config |-> BoundConfig, apps |-> {AppP}, addresses |-> <<>>],
     [config |-> BoundConfig, apps |-> {}, addresses |-> <<>>],
     [config |-> KeysOf(AppP), apps |-> {AppP}, addresses |-> <<>>]}

\* What the service does with a call: "error" is the ApiError of _post.
LoginOutcomes == {"token", "no_token", "error"}
CreateOutcomes == {"ok", "error"}
LookupOutcomes == {"listed", "hidden", "error"}
DappBehaviours == [create : CreateOutcomes, lookup : [1..2 -> LookupOutcomes]]
JwtOutcomes == {"token", "empty_token", "no_access_token", "error"}
ListingOutcomes == {"ok", "error"}
GenerationOutcomes == {"address", "omitted_created", "omitted_not_created", "error"}
WalletBehaviours ==
    [listing : [1..2 -> ListingOutcomes], generation : GenerationOutcomes]
BootServices ==
    {[start |-> s, fund |-> [k \in 1..(MaxAttempts + 1) |-> o], failed_read |-> 0] :
        s \in {0, DEFAULT_MIN_BALANCE}, o \in FundOutcomes}

\* The service answering as documented: no ApiError, registered applications
\* are listed, and a generated address is returned.
HonestLogin == {"token"}
HonestDapp == {b \in DappBehaviours : b.create = "ok" /\ \A k \in 1..2 : b.lookup[k] = "listed"}
HonestJwt == {"token"}
HonestWallet ==
    {b \in WalletBehaviours :
        b.generation = "address" /\ \A k \in 1..2 : b.listing[k] = "ok"}
HonestServices == {s \in BootServices : s.fund[1] = "credited"}

Log(m, call, outcome) ==
    [m EXCEPT !.calls = Append(@, [call |-> call, outcome |-> outcome])]
\* A failure that is swallowed, after which the construction goes on with the
\* funding loop.
RaiseIntoFunding(m) == [m EXCEPT !.pc = "funding"]
Raise(m) == [m EXCEPT !.pc = "failed"]

\* _load_config: self.state becomes what json.load makes of the file, {} when
\* it does not parse.
load_config(m, text) == [m EXCEPT !.pc = "login", !.state = text]

\* What a manager can read at config_path: the saved configuration, or a
\* truncated file while another manager is inside open(config_path, "w") of
\* _save_config.
ConfigReads(w, others) ==
    {w.config} \cup IF \E o \in others : o.pc \in {"dapp", "wallet"} THEN {<<>>} ELSE {}

\* A save that leaves the file as it was.
save_config_skipped(w, m) == w
\* _save_config: the file becomes self.state.
save_config(w, m) == [w EXCEPT !.config = m.state]

\* _ensure_login with client.login.
ensure_login(w, m, outcome) ==
    IF outcome = "error" THEN [w |-> w, m |-> Raise(Log(m, "login", outcome))]
    ELSE [w |-> w,
          m |-> [Log(m, "login", outcome) EXCEPT !.pc = "dapp",
                                                 !.session = (outcome = "token")]]

\* client.create_dapp: refused locally without a session token.
create_dapp(w, m, app_name, outcome) ==
    IF ~m.session THEN [raised |-> TRUE, keys |-> FALSE, w |-> w, m |-> m]
    ELSE IF outcome = "error"
    THEN [raised |-> TRUE, keys |-> FALSE, w |-> w,
          m |-> Log(m, "create_dapp", outcome)]
    ELSE [raised |-> FALSE, keys |-> FALSE,
          w |-> [w EXCEPT !.apps = @ \cup {app_name}],
          m |-> Log(m, "create_dapp", outcome)]

\* client.get_dapp_keys(...).get("keys", []).
get_dapp_keys(w, m, app_name, outcome) ==
    [raised |-> outcome = "error",
     keys |-> outcome = "listed" /\ app_name \in w.apps,
     w |-> w,
     m |-> Log(m, "get_dapp_keys", outcome)]

\* The end of _ensure_dapp: the keys go into self.state, which is saved.
BindApp(w, m, app_name) ==
    LET bound == [m EXCEPT !.pc = "jwt",
                           !.state = DictUpdate(@, KeysOf(app_name))]
    IN  [w |-> save_config(w, bound), m |-> bound]

ensure_dapp(w, m, id, b) ==
    LET known == Has(m.state, "app_name")
        app_name == IF known THEN m.state.app_name ELSE NewAppName(id)
        c1 == create_dapp(w, m, app_name, b.create)
        named == [c1.m EXCEPT !.state = SetKey(@, "app_name", app_name)]
        l1 == IF known THEN get_dapp_keys(w, m, app_name, b.lookup[1])
              ELSE get_dapp_keys(c1.w, named, app_name, b.lookup[1])
        c2 == create_dapp(l1.w, l1.m, app_name, b.create)
        l2 == get_dapp_keys(c2.w, c2.m, app_name, b.lookup[2])
    IN  IF ~known /\ c1.raised THEN [w |-> c1.w, m |-> Raise(c1.m)]
        ELSE IF l1.raised THEN [w |-> l1.w, m |-> Raise(l1.m)]
        ELSE IF l1.keys THEN BindApp(l1.w, l1.m, app_name)
        ELSE IF c2.raised THEN [w |-> c2.w, m |-> Raise(c2.m)]
        ELSE IF l2.raised THEN [w |-> l2.w, m |-> Raise(l2.m)]
        ELSE IF l2.keys THEN BindApp(l2.w, l2.m, app_name)
        ELSE [w |-> l2.w, m |-> Raise(l2.m)]

\* _ensure_jwt with client.jwt_generation: refused locally without a session
\* token; ApiError when the response has no access_token key.  The client
\* keeps res.get("access_token"): "empty_token" is a response whose
\* access_token is null or empty.
ensure_jwt(w, m, outcome) ==
    IF ~m.session THEN [w |-> w, m |-> Raise(m)]
    ELSE IF outcome \in {"error", "no_access_token"}
    THEN [w |-> w, m |-> Raise(Log(m, "jwt_generation", outcome))]
    ELSE [w |-> w,
          m |-> [Log(m, "jwt_generation", outcome) EXCEPT !.pc = "wallet",
                                                          !.access = (outcome = "token")]]

\* A client that attaches whatever it holds and sends the request.
bearer_unchecked(m) == FALSE
\* _post with needs_bearer: ApiError before anything is sent when the client
\* holds no access token.
bearer_missing(m) == ~m.access

\* get_addresses_by_jwt(...).get("addresses", []): the rows of the
\* application the access token was issued for.
Listing(w, app_name) == SelectSeq(w.addresses, LAMBDA row : row.app = app_name)
\* A listing in which no address is ever found.
AddressesOfNone(rows) == {}
AddressesOf(rows) == {rows[k].address : k \in 1..Len(rows)}

\* The end of _ensure_wallet: address and label go into self.state, which is
\* saved.
BindAddress(w, m, address, label) ==
    LET bound == [m EXCEPT !.pc = "funding",
                           !.state = DictUpdate(@, [address |-> address,
                                                    label |-> label])]
    IN  [w |-> save_config(w, bound), m |-> bound]

ensure_wallet(w, m, id, b) ==
    LET held == Has(m.state, "address") /\ Has(m.state, "label")
        app_name == m.state.app_name
        m1 == IF held THEN Log(m, "get_addresses_by_jwt", b.listing[1]) ELSE m
        label == NewLabel(id)
        m2 == Log(m1, "algo_address_generation", b.generation)
        w2 == IF b.generation \in {"address", "omitted_created"}
              THEN [w EXCEPT !.addresses =
                        Append(@, Row(NewAddress(w), label, app_name))]
              ELSE w
        m3 == Log(m2, "get_addresses_by_jwt", b.listing[2])
        rows == Listing(w2, app_name)
    IN  IF bearer_missing(m) THEN [w |-> w, m |-> Raise(m)]
        ELSE IF held /\ b.listing[1] = "error" THEN [w |-> w, m |-> Raise(m1)]
        ELSE IF held /\ m.state.address \in AddressesOf(Listing(w, app_name))
        THEN [w |-> w, m |-> [m1 EXCEPT !.pc = "funding"]]
        ELSE IF b.generation = "error" THEN [w |-> w, m |-> Raise(m2)]
        ELSE IF b.generation = "address"
        THEN BindAddress(w2, m2, NewAddress(w), label)
        ELSE IF b.listing[2] = "error" THEN [w |-> w2, m |-> Raise(m3)]
        ELSE IF rows = <<>> THEN [w |-> w2, m |-> Raise(m3)]
        ELSE BindAddress(w2, m3, rows[Len(rows)].address, label)

\* The last line of __init__: ensure_funded with the manager's thresholds;
\* its balance queries and dispenser requests are remote calls.
FundingCalls(events) ==
    [k \in 1..Len(events) |->
        [call |-> IF events[k].ev = "read" THEN "blockchain_info"
                  ELSE "algo_algos_dispenser",
         outcome |-> events[k].outcome]]
fund_on_construction(w, m, service) ==
    LET r == ensure_funded(service, Some(DEFAULT_MIN_BALANCE),
                           Some(DEFAULT_TOPUP_AMOUNT), MaxAttempts)
        called == [m EXCEPT !.calls = @ \o FundingCalls(r.events)]
        unsent == {k \in 1..Len(r.events) : r.events[k].ev = "fund"}
        first == CHOOSE k \in unsent : \A j \in unsent : k <= j
    IN  IF bearer_missing(m) /\ unsent # {}
        THEN [w |-> w,
              m |-> Raise([m EXCEPT !.calls =
                              @ \o FundingCalls(SubSeq(r.events, 1, first - 1))])]
        ELSE [w |-> w,
              m |-> IF r.raised THEN Raise(called) ELSE [called EXCEPT !.pc = "ready"]]

(* ------------------------------- actions ------------------------------- *)
FS == [d |-> dirs, f |-> files]

Init ==
    /\ dirs = {<<>>, Cwd}
    /\ files = <<>>
    /\ runs = <<>>
    /\ ledger = 0
    /\ clock = 0
    /\ nUp = 0
    /\ nMut = 0
    /\ last = [op |-> "init", result |-> "ok"]
    /\ b4 = [w |-> FreshWorld, mgrs |-> [id \in Managers |-> IdleManager]]

\* POST /scenario1/notarize
Upload(inputs) ==
    \E req \in inputs :
        LET r == scenario1_notarize_document(FS, req, clock)
        IN  /\ nUp < MaxUploads
            /\ dirs' = r.fs.d
            /\ files' = r.fs.f
            /\ runs' = runs \o r.tasks
            /\ nUp' = nUp + 1
            /\ clock' = IF r.result = "ok" THEN clock + 1 ELSE clock
            /\ last' = [op |-> "upload", req |-> req, result |-> r.result]
            /\ UNCHANGED <<ledger, nMut, b4>>

\* POST /scenario1/query
Query ==
    \E req \in QueryInputs :
        LET r == scenario1_query_document_status(FS, req)
        IN  /\ last' = [op |-> "query", req |-> req, result |-> r.result,
                        data |-> IF r.result = "ok" THEN r.data ELSE <<>>]
            /\ UNCHANGED <<dirs, files, runs, ledger, clock, nUp, nMut, b4>>

\* POST /scenario2/notarize
Upload2 ==
    \E req \in ScenarioInputs :
        LET r == scenario2_notarize_document(FS, req, clock)
        IN  /\ nUp < MaxUploads
            /\ dirs' = r.fs.d
            /\ files' = r.fs.f
            /\ nUp' = nUp + 1
            /\ clock' = IF r.result = "ok" THEN clock + 1 ELSE clock
            /\ last' = [op |-> "upload2", req |-> req, result |-> r.result,
                        response |-> IF r.result = "ok" THEN r.response ELSE <<>>]
            /\ UNCHANGED <<runs, ledger, nMut, b4>>

\* POST /scenario3/notarize
Upload3 ==
    \E req \in ScenarioInputs :
        LET r == scenario3_notarize_document(FS, req, clock)
        IN  /\ nUp < MaxUploads
            /\ dirs' = r.fs.d
            /\ files' = r.fs.f
            /\ nUp' = nUp + 1
            /\ clock' = IF r.result = "ok" THEN clock + 1 ELSE clock
            /\ last' = [op |-> "upload3", req |-> req, result |-> r.result,
                        response |-> IF r.result = "ok" THEN r.response ELSE <<>>]
            /\ UNCHANGED <<runs, ledger, nMut, b4>>

\* The steps of simulate_transaction, run by the BackgroundTasks thread pool.
RunLoad ==
    \E i \in 1..Len(runs) :
        LET r == sim_load(FS, runs[i])
        IN  /\ runs[i].pc = "queued"
            /\ dirs' = r.fs.d
            /\ files' = r.fs.f
            /\ runs' = [runs EXCEPT ![i].pc = r.pc, ![i].meta = r.meta,
                                    ![i].loaded = sim_read(FS, runs[i])]
            /\ last' = [op |-> "run", run |-> i, step |-> "load", result |-> r.outcome]
            /\ UNCHANGED <<ledger, clock, nUp, nMut, b4>>

RunBoot(outcomes) ==
    \E i \in 1..Len(runs), outcome \in outcomes :
        LET r == get_asset_manager(outcome)
        IN  /\ runs[i].pc = "boot"
            /\ runs' = [runs EXCEPT ![i].pc = r.pc]
            /\ ledger' = ledger + 1
            /\ last' = [op |-> "run", run |-> i, step |-> "boot", result |-> r.outcome]
            /\ UNCHANGED <<dirs, files, clock, nUp, nMut, b4>>

RunCommit ==
    \E i \in 1..Len(runs) :
        LET r == sim_commit(FS, runs[i])
        IN  /\ runs[i].pc = "commit"
            /\ dirs' = r.d
            /\ files' = r.f
            /\ runs' = [runs EXCEPT ![i].pc = "submit"]
            /\ last' = [op |-> "run", run |-> i, step |-> "commit", result |-> "ok"]
            /\ UNCHANGED <<ledger, clock, nUp, nMut, b4>>

RunSubmit(outcomes) ==
    \E i \in 1..Len(runs), outcome \in outcomes :
        LET r == sim_submit(FS, runs[i], outcome, clock)
        IN  /\ runs[i].pc = "submit"
            /\ dirs' = r.fs.d
            /\ files' = r.fs.f
            /\ runs' = [runs EXCEPT ![i].pc = "done", ![i].meta = r.meta,
                                    ![i].appended = r.appended]
            /\ ledger' = ledger + 1
            /\ clock' = clock + 1
            /\ last' = [op |-> "run", run |-> i, step |-> "submit",
                        result |-> sim_entry(runs[i], outcome, clock).type]
            /\ UNCHANGED <<nUp, nMut, b4>>

RunWhole(boots, outcomes) ==
    \E i \in 1..Len(runs), boot \in boots, outcome \in outcomes :
        LET r == simulate_transaction(FS, runs[i], boot, outcome, clock)
        IN  /\ runs[i].pc = "queued"
            /\ dirs' = r.fs.d
            /\ files' = r.fs.f
            /\ runs' = [runs EXCEPT ![i] = r.run]
            /\ ledger' = ledger + r.calls
            /\ clock' = clock + 1
            /\ last' = [op |-> "run", run |-> i, step |-> "whole",
                        result |-> IF r.run.appended = 1 THEN "appended" ELSE "ended"]
            /\ UNCHANGED <<nUp, nMut, b4>>

\* A run from its first line to its last with create_asset spelled out: the
\* funding loop against the service, the request, and the entry written to
\* the sidecar.  No request interleaves with the run, the runs start in the
\* order in which the uploads queued them, and what a run held in memory is
\* gone when it returns.
RunIssue(services, outcomes) ==
    \E i \in 1..Len(runs), service \in services, outcome \in outcomes :
        LET l == sim_load(FS, runs[i])
            loaded == [runs[i] EXCEPT !.meta = l.meta, !.loaded = sim_read(FS, runs[i])]
            r == sim_issue(sim_commit(l.fs, loaded), loaded, service, outcome, clock)
        IN  /\ runs[i].pc = "queued"
            /\ \A j \in 1..(i - 1) : runs[j].pc # "queued"
            /\ l.pc # "done"
            /\ dirs' = r.fs.d
            /\ files' = r.fs.f
            /\ runs' = [runs EXCEPT ![i].pc = "done", ![i].appended = r.appended]
            /\ ledger' = ledger + 1 + Len(r.events) + Len(r.sent)
            /\ clock' = clock + 1
            /\ last' = [op |-> "run", run |-> i, step |-> "issue",
                        result |-> r.entry.type, service |-> service,
                        backend |-> outcome, events |-> r.events,
                        balance |-> r.balance, sent |-> r.sent]
            /\ UNCHANGED <<nUp, nMut, b4>>

\* POST /storage/rename
Rename ==
    \E req \in RenameInputs :
        LET r == storage_rename(FS, req)
        IN  /\ nMut < MaxMutations
            /\ dirs' = r.fs.d
            /\ files' = r.fs.f
            /\ nMut' = nMut + 1
            /\ last' = [op |-> "rename", req |-> req, result |-> r.result]
            /\ UNCHANGED <<runs, ledger, clock, nUp, b4>>

\* POST /storage/move
Move ==
    \E req \in MoveInputs :
        LET r == storage_move(FS, req)
        IN  /\ nMut < MaxMutations
            /\ dirs' = r.fs.d
            /\ files' = r.fs.f
            /\ nMut' = nMut + 1
            /\ last' = [op |-> "move", req |-> req, result |-> r.result]
            /\ UNCHANGED <<runs, ledger, clock, nUp, b4>>

\* POST /storage/delete
Delete ==
    \E req \in DeleteInputs :
        LET r == storage_delete(FS, req)
        IN  /\ nMut < MaxMutations
            /\ dirs' = r.fs.d
            /\ files' = r.fs.f
            /\ nMut' = nMut + 1
            /\ last' = [op |-> "delete", req |-> req, result |-> r.result]
            /\ UNCHANGED <<runs, ledger, clock, nUp, b4>>

\* GET /storage/{storage_id}/list
List ==
    \E sid \in ListInputs :
        LET r == storage_list_all(FS, sid)
        IN  /\ last' = [op |-> "list", req |-> [storage_id |-> sid],
                        result |-> r.result, entries |-> r.entries]
            /\ UNCHANGED <<dirs, files, runs, ledger, clock, nUp, nMut, b4>>

\* B4AssetManager.ensure_funded, called once on a manager with the default
\* thresholds.
EnsureFunded ==
    \E in \in EnsureFundedInputs :
        /\ last.op = "init"
        /\ last' = [op |-> "ensure_funded", input |-> in,
                    result |-> ensure_funded(in.service, in.min_balance,
                                             in.topup_amount, in.max_attempts)]
        /\ UNCHANGED <<dirs, files, runs, ledger, clock, nUp, nMut, b4>>

\* The file at config_path and the service as a deployment finds them.
Provision ==
    \E w \in Worlds :
        /\ last.op = "init"
        /\ b4' = [b4 EXCEPT !.w = w]
        /\ last' = [op |-> "provision", result |-> "ok"]
        /\ UNCHANGED <<dirs, files, runs, ledger, clock, nUp, nMut>>

Finished(m) == m.pc \in {"idle", "ready", "failed"}
ManagerStep(id, step, r) ==
    /\ b4' = [w |-> r.w, mgrs |-> [b4.mgrs EXCEPT ![id] = r.m]]
    /\ last' = [op |-> "manager", mgr |-> id, step |-> step,
                result |-> IF r.m.pc = "failed" THEN "raised" ELSE "ok"]
    /\ UNCHANGED <<dirs, files, runs, ledger, clock, nUp, nMut>>

\* B4AssetManager(...) in _get_asset_manager: a run starts to construct its
\* manager, while another one is still constructing its own when overlap is
\* TRUE.  Manager "B" belongs to the later run.
MgrStart(overlap) ==
    \E id \in Managers :
        \E text \in ConfigReads(b4.w, {b4.mgrs[o] : o \in Managers \ {id}}) :
            /\ last.op # "init"
            /\ b4.mgrs[id].pc = "idle"
            /\ id = "B" => b4.mgrs["A"].pc # "idle"
            /\ overlap \/ \A o \in Managers : Finished(b4.mgrs[o])
            /\ ManagerStep(id, "load",
                           [w |-> b4.w, m |-> load_config(b4.mgrs[id], text)])

MgrLogin(outcomes) ==
    \E id \in Managers, outcome \in outcomes :
        /\ b4.mgrs[id].pc = "login"
        /\ ManagerStep(id, "login", ensure_login(b4.w, b4.mgrs[id], outcome))

MgrDapp(behaviours) ==
    \E id \in Managers, b \in behaviours :
        /\ b4.mgrs[id].pc = "dapp"
        /\ ManagerStep(id, "dapp", ensure_dapp(b4.w, b4.mgrs[id], id, b))

MgrJwt(outcomes) ==
    \E id \in Managers, outcome \in outcomes :
        /\ b4.mgrs[id].pc = "jwt"
        /\ ManagerStep(id, "jwt", ensure_jwt(b4.w, b4.mgrs[id], outcome))

MgrWallet(behaviours) ==
    \E id \in Managers, b \in behaviours :
        /\ b4.mgrs[id].pc = "wallet"
        /\ ManagerStep(id, "wallet", ensure_wallet(b4.w, b4.mgrs[id], id, b))

MgrFund(services) ==
    \E id \in Managers, service \in services :
        /\ b4.mgrs[id].pc = "funding"
        /\ ManagerStep(id, "funding",
                       fund_on_construction(b4.w, b4.mgrs[id], service))

\* The notarization machine: uploads, status queries and the deferred runs
\* with every outcome of the bootstrap and of the submission.
Next ==
    \/ Upload(NotarizeInputs)
    \/ Query
    \/ RunLoad
    \/ RunBoot(BootOutcomes)
    \/ RunCommit
    \/ RunSubmit(SubmitOutcomes)

Spec == Init /\ [][Next]_vars

\* The storage machine: uploads, rename, move and delete, and runs that
\* complete between two requests with every remote call succeeding.
NextStorage ==
    \/ Upload(StorageUploads)
    \/ Rename
    \/ Move
    \/ Delete
    \/ RunWhole({"ok"}, {[kind |-> "response", resp |-> MintResponse]})

SpecStorage == Init /\ [][NextStorage]_vars

\* The storage browser: uploads, completed runs, deletions and listings.
NextBrowse ==
    \/ Upload(BrowseUploads)
    \/ RunWhole({"ok"}, {[kind |-> "response", resp |-> MintResponse]})
    \/ Delete
    \/ List

SpecBrowse == Init /\ [][NextBrowse]_vars

\* The funding loop on its own, over every behaviour of the service.
NextFunding == EnsureFunded

SpecFunding == Init /\ [][NextFunding]_vars

\* The three notarize endpoints side by side, with status queries.
NextScenarios ==
    \/ Upload(BrowseUploads)
    \/ Upload2
    \/ Upload3
    \/ Query

SpecScenarios == Init /\ [][NextScenarios]_vars

\* Requests interleaved with the steps of the deferred runs: FastAPI runs a
\* BackgroundTasks function in its thread pool after the response was sent,
\* and serves rename, move and delete meanwhile.  Every remote call succeeds.
NextRace ==
    \/ Upload(RaceUploads)
    \/ RunLoad
    \/ RunBoot({"ok"})
    \/ RunCommit
    \/ RunSubmit({[kind |-> "response", resp |-> MintResponse]})
    \/ Rename
    \/ Move
    \/ Delete

SpecRace == Init /\ [][NextRace]_vars

\* Managers constructed one after the other, against every behaviour of the
\* service.
NextBootstrap ==
    \/ Provision
    \/ MgrStart(FALSE)
    \/ MgrLogin(LoginOutcomes)
    \/ MgrDapp(DappBehaviours)
    \/ MgrJwt(JwtOutcomes)
    \/ MgrWallet(WalletBehaviours)
    \/ MgrFund(BootServices)

SpecBootstrap == Init /\ [][NextBootstrap]_vars

\* The managers of two runs that overlap, against a service that answers as
\* documented.
NextOverlap ==
    \/ Provision
    \/ MgrStart(TRUE)
    \/ MgrLogin(HonestLogin)
    \/ MgrDapp(HonestDapp)
    \/ MgrJwt(HonestJwt)
    \/ MgrWallet(HonestWallet)
    \/ MgrFund(HonestServices)

SpecOverlap == Init /\ [][NextOverlap]_vars

\* The issuing machine: uploads, and runs that complete between two requests
\* with create_asset against every behaviour of the funding service and of
\* the backend.
NextIssue ==
    \/ Upload(IssueUploads)
    \/ RunIssue(BootServices, IssueOutcomes)

SpecIssue == Init /\ [][NextIssue]_vars

(* ----------------------- properties: path safety ----------------------- *)
FSAfter == [d |-> dirs', f |-> files']
DataRoot == Append(Cwd, Data)
RequestOps == {"upload", "rename", "move", "delete"}
Changed ==
    {p \in dirs \cup dirs' \cup DOMAIN files \cup DOMAIN files' :
        \/ (p \in dirs) # (p \in dirs')
        \/ (p \in DOMAIN files) # (p \in DOMAIN files')
        \/ p \in DOMAIN files /\ p \in DOMAIN files' /\ files[p] # files'[p]}
Abs(sid, rel) == Resolve(Cwd, RootOf(sid) \o rel)

\* The locations the path-valued arguments of a request resolve to.
Targets(l) ==
    CASE l.op = "upload" ->
           {Abs(l.req.storage_id, l.req.folder_path),
            Abs(l.req.storage_id, l.req.folder_path \o l.req.file_name)}
      [] l.op = "rename" ->
           {Abs(l.req.storage_id, l.req.path),
            Resolve(Parent(Abs(l.req.storage_id, l.req.path)), l.req.new_name)}
      [] l.op = "move" ->
           {Abs(l.req.storage_id, l.req.path), Abs(l.req.storage_id, l.req.destination)}
      [] l.op = "delete" -> {Abs(l.req.storage_id, l.req.path)}
Rejected == last'.result = "PathViolation" /\ dirs' = dirs /\ files' = files

\* C1: a request with a path argument that resolves outside DATA/<storage_id>
\* fails with PathViolation and leaves every file and directory as it was.
C1_EscapingArgumentRejected ==
    [][(/\ last'.op \in RequestOps
        /\ \E p \in Targets(last') : ~IsPrefix(RootResolved(last'.req.storage_id), p))
       => Rejected]_vars

\* C2: rename, move and delete of a path that canonicalizes to the namespace
\* root itself fail with PathViolation and change nothing.
C2_NamespaceRootRejected ==
    [][(/\ last'.op \in {"rename", "move", "delete"}
        /\ Abs(last'.req.storage_id, last'.req.path) = RootResolved(last'.req.storage_id))
       => Rejected]_vars

\* C3: a request made with namespace A changes nothing outside the directory
\* of A under the DATA root (creating the DATA root itself aside), whatever
\* the value of storage_id.
InNamespace(sid, p) ==
    /\ IsPrefix(DataRoot, RootResolved(sid))
    /\ RootResolved(sid) # DataRoot
    /\ IsPrefix(RootResolved(sid), p)
C3_NamespaceIsolation ==
    [][last'.op \in RequestOps
       => \A p \in Changed : p = DataRoot \/ InNamespace(last'.req.storage_id, p)]_vars

(* --------------------- properties: the audit trail --------------------- *)
Sidecars(f) == {q \in DOMAIN f : IsMetaName(Last(q)) /\ IsJson(f[q])}

\* C4: the validations of a document that stays on disk only grow: what was
\* recorded before a step is a prefix of what is recorded after it.
C4_ValidationsAppendOnly ==
    [][\A q \in Sidecars(files) \cap Sidecars(files') :
          IsPrefix(files[q].obj.validations, files'[q].obj.validations)]_vars

\* C5: a finished run that read its sidecar has appended exactly one entry,
\* whichever step failed.
C5_EveryRunLeavesOneEntry ==
    \A i \in 1..Len(runs) :
        (runs[i].pc = "done" /\ runs[i].loaded # <<>>) => runs[i].appended = 1

\* C6: when the submission of a run fails, the sidecar becomes the record the
\* run read plus exactly one Error entry that has a timestamp and no ledger
\* identifier; no other field differs, and no step of a run changes content
\* bytes.
ErrorTypes == {"asa_mint_error", "unexpected_error"}
IsErrorEntry(e) ==
    /\ e.type \in ErrorTypes
    /\ e.timestamp # Null
    /\ ~Has(e, "asset_id")
    /\ e.txid = Null /\ e.sender = Null /\ e.receiver = Null
FailedSubmitOf(i) ==
    /\ last'.op = "run" /\ last'.run = i /\ last'.step = "submit"
    /\ last'.result \in ErrorTypes
C6_FailedSubmissionAddsOneError ==
    [][/\ \A i \in 1..Len(runs) : FailedSubmitOf(i) =>
            LET q == SidecarOf(ContentPath(runs[i]))
                before == runs[i].loaded
            IN  /\ q \in Sidecars(files')
                /\ DOMAIN files'[q].obj = DOMAIN before
                /\ \A k \in DOMAIN before \ {"validations"} : files'[q].obj[k] = before[k]
                /\ Len(files'[q].obj.validations) = Len(before.validations) + 1
                /\ Front(files'[q].obj.validations) = before.validations
                /\ IsErrorEntry(Last(files'[q].obj.validations))
       /\ last'.op = "run" =>
            \A p \in DOMAIN files : files[p].kind = "bytes" =>
                p \in DOMAIN files' /\ files'[p] = files[p]]_vars
C6_Witness ==
    /\ last.op = "run" /\ last.step = "submit" /\ last.result = "asa_mint_error"
    /\ \E q \in Sidecars(files) :
          /\ files[q].obj.validations # <<>>
          /\ IsErrorEntry(Last(files[q].obj.validations))
          /\ runs[last.run].appended = 1

\* C7: an upload that names any network other than "algo" (in any letter case)
\* is refused with nothing written, no run queued and no remote call made.
EnabledSpellings == {"algo", "ALGO", "Algo"}
NamesOtherNetwork(chains) == \E i \in 1..Len(chains) : chains[i] \notin EnabledSpellings
C7_OtherNetworkRefusedFirst ==
    [][(last'.op = "upload" /\ NamesOtherNetwork(last'.req.selected_chain))
       => /\ last'.result = "Unimplemented"
          /\ UNCHANGED <<dirs, files, runs, ledger>>]_vars
C7_Witness ==
    /\ last.op = "upload"
    /\ last.req.selected_chain = <<"algo", "other">>
    /\ last.result = "Unimplemented"
    /\ nUp = 1 /\ files = <<>> /\ runs = <<>> /\ ledger = 0

\* C8: right after an accepted upload of bytes B, the query for the same
\* document returns sha256(B), Len(B) and no validations, even when the extras
\* carry keys of these names, and keeps every other extras key; validations
\* stop being empty only by the submit step of a run.
ComputedKeys ==
    {"document_hash", "storage_id", "folder_path", "file_name", "file_weight",
     "file_type", "upload_date", "validations"}
QueryOf(fs, req) ==
    scenario1_query_document_status(
        fs, QueryReq(req.storage_id, req.folder_path, req.file_name, Algo))
UploadedRecordIs(fs, req) ==
    /\ QueryOf(fs, req).result = "ok"
    /\ QueryOf(fs, req).data.document_hash = Sha256(Bytes(req.document_base64.bytes))
    /\ QueryOf(fs, req).data.file_weight = Len(req.document_base64.bytes)
    /\ QueryOf(fs, req).data.validations = <<>>
    /\ \A k \in (DOMAIN req.metadata) \ ComputedKeys :
          Has(QueryOf(fs, req).data, k) /\ QueryOf(fs, req).data[k] = req.metadata[k]
C8_QueryAfterUpload ==
    [][/\ (last'.op = "upload" /\ last'.result = "ok")
            => UploadedRecordIs(FSAfter, last'.req)
       /\ \A q \in Sidecars(files) \cap Sidecars(files') :
            (files[q].obj.validations = <<>> /\ files'[q].obj.validations # <<>>)
            => (last'.op = "run" /\ last'.step = "submit")]_vars
C8_Witness ==
    /\ last.op = "upload" /\ last.result = "ok"
    /\ last.req.metadata = ForgedExtras
    /\ last.req.document_base64.bytes = B2
    /\ UploadedRecordIs(FS, last.req)
    /\ QueryOf(FS, last.req).data.author = "rossi"

(* ------------------ properties: records follow the files ---------------- *)
Namespaces == {Ns1, Ns2}

\* C9: every sidecar under a namespace whose content file exists records the
\* folder of that file relative to the namespace root and the file's name.
C9_RecordsMatchDisk ==
    \A sid \in Namespaces : \A q \in Sidecars(files) :
        (/\ IsPrefix(RootResolved(sid), q)
         /\ Append(Parent(q), Front(Last(q))) \in DOMAIN files)
        => /\ files[q].obj.folder_path
                = SubSeq(q, Len(RootResolved(sid)) + 1, Len(q) - 1)
           /\ files[q].obj.file_name = <<Front(Last(q))>>

\* C10: after an accepted rename or move of a file, the sidecar and the
\* artifact it had are next to the content where it now is, and nothing of
\* them is left at the old path.
OldPath(l) == Abs(l.req.storage_id, l.req.path)
NewPath(l) ==
    IF l.op = "rename" THEN Append(Parent(OldPath(l)), l.req.new_name[1])
    ELSE Append(Abs(l.req.storage_id, l.req.destination), Last(OldPath(l)))
ContentNow(l) ==
    IF IsDir(FS, NewPath(l)) THEN Append(NewPath(l), Last(OldPath(l))) ELSE NewPath(l)
C10_SidecarsFollowTheFile ==
    [][(/\ last'.op \in {"rename", "move"}
        /\ last'.result = "ok"
        /\ IsFile(FS, OldPath(last')))
       => /\ Exists(FS, SidecarOf(OldPath(last')))
                => IsFile(FSAfter, SidecarOf(ContentNow(last')))
          /\ Exists(FS, ArtifactOf(OldPath(last')))
                => IsFile(FSAfter, ArtifactOf(ContentNow(last')))
          /\ ContentNow(last') # OldPath(last')
                => /\ ~Exists(FSAfter, SidecarOf(OldPath(last')))
                   /\ ~Exists(FSAfter, ArtifactOf(OldPath(last')))]_vars

\* C11: renaming a document from A to B and then from B back to A leaves it
\* at its original relative path with every field of its record as it was
\* before the two renames.
RoundTrip(fs, sid, a, b) ==
    storage_rename(storage_rename(fs, RenameReq(sid, <<a>>, <<b>>)).fs,
                   RenameReq(sid, <<b>>, <<a>>))
RenamedBothWays(fs, sid, a, b) ==
    /\ IsFile(fs, Abs(sid, <<a>>))
    /\ SidecarOf(Abs(sid, <<a>>)) \in Sidecars(fs.f)
    /\ storage_rename(fs, RenameReq(sid, <<a>>, <<b>>)).result = "ok"
    /\ RoundTrip(fs, sid, a, b).result = "ok"
C11_RenameRoundTrip ==
    \A a \in {NameA, NameB}, b \in {NameA, NameB} :
        (a # b /\ RenamedBothWays(FS, Ns1, a, b))
        => /\ IsFile(RoundTrip(FS, Ns1, a, b).fs, Abs(Ns1, <<a>>))
           /\ RoundTrip(FS, Ns1, a, b).fs.f[Abs(Ns1, <<a>>)] = files[Abs(Ns1, <<a>>)]
           /\ SidecarOf(Abs(Ns1, <<a>>)) \in Sidecars(RoundTrip(FS, Ns1, a, b).fs.f)
           /\ RoundTrip(FS, Ns1, a, b).fs.f[SidecarOf(Abs(Ns1, <<a>>))].obj
                = files[SidecarOf(Abs(Ns1, <<a>>))].obj

(* --------------------- properties: delete and listing ------------------- *)
RelPath(l) ==
    SubSeq(OldPath(l), Len(RootResolved(l.req.storage_id)) + 1, Len(OldPath(l)))
ListedKeys(fs, sid) == {e.key : e \in storage_list_all(fs, sid).entries}

\* C12: an accepted delete of a file path removes the content, its sidecar
\* and its artifact together: after the call none of the three exists and the
\* listing of the namespace has no entry for that path.
C12_DeleteRemovesAllThree ==
    [][(/\ last'.op = "delete"
        /\ last'.result = "ok"
        /\ IsFile(FS, OldPath(last')))
       => /\ ~Exists(FSAfter, OldPath(last'))
          /\ ~Exists(FSAfter, SidecarOf(OldPath(last')))
          /\ ~Exists(FSAfter, ArtifactOf(OldPath(last')))
          /\ RelPath(last') \notin ListedKeys(FSAfter, last'.req.storage_id)]_vars
C12_Witness ==
    /\ last.op = "delete" /\ last.result = "ok"
    /\ last.req.path = <<NameA>>
    /\ \E i \in 1..Len(runs) :
          /\ runs[i].pc = "done" /\ runs[i].appended = 1
          /\ ContentPath(runs[i]) = OldPath(last)
    /\ ~Exists(FS, OldPath(last))
    /\ ~Exists(FS, SidecarOf(OldPath(last)))
    /\ ~Exists(FS, ArtifactOf(OldPath(last)))
    /\ storage_list_all(FS, last.req.storage_id).result = "ok"

\* C13: for a path inside the namespace, delete with recursive=false of a
\* directory that is not empty fails with DirectoryNotEmpty and removes
\* nothing; delete with recursive=true of a directory removes it with its
\* whole subtree and nothing else; delete of a path that does not exist fails
\* with NotFound and changes nothing.
HasChildren(fs, p) == \E q \in fs.d \cup DOMAIN fs.f : IsPrefix(p, q) /\ q # p
DeleteInside(l) ==
    /\ l.op = "delete"
    /\ IsPrefix(RootResolved(l.req.storage_id), OldPath(l))
C13_DeleteOfDirectories ==
    [][DeleteInside(last') =>
         /\ (/\ IsDir(FS, OldPath(last'))
             /\ HasChildren(FS, OldPath(last'))
             /\ ~last'.req.recursive)
            => /\ last'.result = "DirectoryNotEmpty"
               /\ UNCHANGED <<dirs, files>>
         /\ (IsDir(FS, OldPath(last')) /\ last'.req.recursive)
            => /\ last'.result = "ok"
               /\ dirs' = {q \in dirs : ~IsPrefix(OldPath(last'), q)}
               /\ DOMAIN files' = {q \in DOMAIN files : ~IsPrefix(OldPath(last'), q)}
               /\ \A q \in DOMAIN files' : files'[q] = files[q]
         /\ ~Exists(FS, OldPath(last'))
            => /\ last'.result = "NotFound"
               /\ UNCHANGED <<dirs, files>>]_vars
C13_Witness ==
    /\ last.op = "delete" /\ last.result = "DirectoryNotEmpty"
    /\ last.req = DeleteReq(Ns1, <<DirD>>, FALSE)
    /\ IsFile(FS, Abs(Ns1, <<DirD, NameB>>))
    /\ IsFile(FS, SidecarOf(Abs(Ns1, <<DirD, NameB>>)))

(* ------------------ properties: requests and the ledger ----------------- *)
\* The results of every request of the API on a file system.
RequestResults(fs) ==
    [upload |-> [req \in NotarizeInputs |->
                    scenario1_notarize_document(fs, req, clock).result],
     query |-> [req \in QueryInputs |-> scenario1_query_document_status(fs, req).result],
     list |-> [sid \in ListInputs |-> storage_list_all(fs, sid).result],
     rename |-> [req \in RenameInputs |-> storage_rename(fs, req).result],
     move |-> [req \in MoveInputs |-> storage_move(fs, req).result],
     delete |-> [req \in DeleteInputs |-> storage_delete(fs, req).result]]
\* What the ledger can do to a run: each bootstrap failure, and each outcome
\* of the submission after a bootstrap that worked.
LedgerBehaviours ==
    {[boot |-> b, outcome |-> [kind |-> "api_error", resp |-> <<>>]] :
        b \in BootOutcomes \ {"ok"}}
    \cup {[boot |-> "ok", outcome |-> o] : o \in SubmitOutcomes}
Succeeds == [boot |-> "ok", outcome |-> [kind |-> "response", resp |-> MintResponse]]
AfterRun(i, lb) == simulate_transaction(FS, runs[i], lb.boot, lb.outcome, clock).fs
ValidUpload(req) ==
    /\ req.document_base64.valid
    /\ \A k \in 1..Len(req.selected_chain) : req.selected_chain[k] \in EnabledSpellings

\* C14: an upload with valid input and the enabled network answers success
\* with an empty on_chain_validations list while its run is still queued and
\* without a call to the ledger, whatever earlier runs ended in; no request
\* step calls the ledger; and whatever the ledger does to a queued run, every
\* upload, query, list, rename, move and delete made after it has the result
\* it has after a run that succeeded.
C14_RequestsIndependentOfLedger ==
    /\ [][/\ (last'.op = "upload" /\ ValidUpload(last'.req))
             => /\ last'.result = "ok"
                /\ scenario1_notarize_document(FS, last'.req, clock)
                      .response.on_chain_validations = <<>>
                /\ Len(runs') = Len(runs) + 1
                /\ Last(runs').pc = "queued" /\ Last(runs').appended = 0
          /\ last'.op \in {"upload", "query"} => ledger' = ledger]_vars
    /\ [](\A i \in {j \in 1..Len(runs) : runs[j].pc = "queued"} :
             LET expected == RequestResults(AfterRun(i, Succeeds))
             IN  \A fs \in {AfterRun(i, lb) : lb \in LedgerBehaviours}
                                \ {AfterRun(i, Succeeds)} :
                    RequestResults(fs) = expected)
C14_Witness ==
    /\ last.op = "upload" /\ last.result = "ok" /\ nUp = 2
    /\ ledger > 0
    /\ runs[1].pc = "done" /\ runs[1].loaded # <<>> /\ runs[1].appended = 0
    /\ runs[2].pc = "queued"

(* --------------------- properties: the funding loop --------------------- *)
Called == last.op = "ensure_funded"
\* The thresholds the caller asked for: the argument, or the manager's
\* configured value when the argument is None.
ArgOr(x, default) == IF x = Null THEN default ELSE x[1]
MinBalanceOf(in) == ArgOr(in.min_balance, DEFAULT_MIN_BALANCE)
TopupOf(in) == ArgOr(in.topup_amount, DEFAULT_TOPUP_AMOUNT)
Reads(ev) == {k \in 1..Len(ev) : ev[k].ev = "read"}
Funds(ev) == {k \in 1..Len(ev) : ev[k].ev = "fund"}
Scenario(in) ==
    /\ in.min_balance = Some(100) /\ in.topup_amount = Some(50)
    /\ in.max_attempts = 3
    /\ in.service.start = 0 /\ in.service.failed_read = 0
    /\ \A k \in 1..3 : in.service.fund[k] = "credited"

\* C15: ensure_funded reads the balance before each funding request; a read
\* of at least min_balance is the last thing it does and is what it returns;
\* every earlier read was below min_balance and is followed by exactly one
\* request of topup_amount; there are never more than max_attempts requests;
\* with min_balance 100, topup_amount 50, max_attempts 3, a starting balance
\* of 0 and every request adding 50 there are two requests and the result
\* is 100.
C15_FundingLoopContract ==
    Called =>
        LET in == last.input
            r == last.result
            ev == last.result.events
        IN  /\ \A k \in Funds(ev) : k > 1 /\ ev[k - 1].ev = "read"
            /\ \A k \in Reads(ev) :
                  ev[k].n >= MinBalanceOf(in)
                  => (k = Len(ev) /\ ~r.raised /\ r.balance = ev[k].n)
            /\ \A k \in Reads(ev) :
                  k < Len(ev)
                  => /\ ev[k].n < MinBalanceOf(in)
                     /\ ev[k + 1].ev = "fund"
                     /\ ev[k + 1].n = TopupOf(in)
            /\ Cardinality(Funds(ev)) <= in.max_attempts
            /\ Scenario(in)
                  => (Cardinality(Funds(ev)) = 2 /\ ~r.raised /\ r.balance = 100)

\* C16: a funding request that fails does not end ensure_funded: the call
\* goes on to read the balance again and returns the balance it read last.
C16_FailedRequestDoesNotAbort ==
    Called =>
        LET r == last.result
            ev == last.result.events
        IN  \A k \in Funds(ev) :
               ev[k].outcome = "rejected"
               => /\ ~r.raised
                  /\ k < Len(ev) /\ ev[k + 1].ev = "read"
                  /\ r.balance = ev[Len(ev)].n

\* C17: ensure_funded ends; when every funding request is accepted and every
\* balance read is below min_balance it makes max_attempts requests, reads
\* once more and returns that balance without raising; with max_attempts = 0
\* it makes no funding request.
C17_FundingLoopStops ==
    Called =>
        LET in == last.input
            r == last.result
            ev == last.result.events
        IN  /\ (/\ \A k \in Funds(ev) : ev[k].outcome # "rejected"
                /\ \A k \in Reads(ev) : ev[k].n < MinBalanceOf(in))
               => /\ ~r.raised
                  /\ Cardinality(Funds(ev)) = in.max_attempts
                  /\ Cardinality(Reads(ev)) = in.max_attempts + 1
                  /\ ev[Len(ev)].ev = "read"
                  /\ r.balance = ev[Len(ev)].n
            /\ in.max_attempts = 0 => Funds(ev) = {}
C17_Witness ==
    /\ Called
    /\ last.input.min_balance = Some(100) /\ last.input.topup_amount = Some(50)
    /\ last.input.max_attempts = MaxAttempts
    /\ last.input.service.start = 0 /\ last.input.service.failed_read = 0
    /\ \A k \in 1..MaxAttempts : last.input.service.fund[k] = "accepted"
    /\ Cardinality(Funds(last.result.events)) = MaxAttempts
    /\ ~last.result.raised /\ last.result.balance = 0

\* The balance queries that failed, and the round of the loop a query
\* belongs to (max_attempts + 1 for the query after the loop).
FailedReads(ev) == {k \in Reads(ev) : ev[k].outcome = "error"}
RoundOf(ev, k) == Cardinality({j \in Reads(ev) : j <= k})

Payload(fingerprint, namespace, relative_path, file_name) ==
    [hash |-> fingerprint, storage_id |-> namespace, path |-> relative_path,
     file |-> file_name]
PayloadOf(run) ==
    Payload(run.meta.document_hash, run.storage_id, run.relative_path,
            <<Last(Abs(run.storage_id, run.relative_path))>>)
StepOf(i, step) == last'.op = "run" /\ last'.run = i /\ last'.step = step

\* C18: the commitment payload and its hash are a function of the
\* fingerprint, the namespace, the relative path and the file name alone: the
\* artifact a run writes holds these four values and nothing else, the hash a
\* successful run records is the hash of that payload, and two runs that
\* agree on the four values have the same payload and the same hash, whatever
\* else their records hold and whenever they run.
C18_CommitmentIsPure ==
    /\ [][\A i \in 1..Len(runs) :
            /\ StepOf(i, "commit")
               => /\ IsFile(FSAfter, ArtifactOf(ContentPath(runs[i])))
                  /\ files'[ArtifactOf(ContentPath(runs[i]))].obj = PayloadOf(runs[i])
            /\ (StepOf(i, "submit") /\ last'.result = "asa_mint")
               => Last(runs'[i].meta.validations).metadata_sha256_hex
                     = Sha256(JsonText(PayloadOf(runs[i]), 0))]_vars
    /\ [](\A i, j \in 1..Len(runs) :
            (/\ runs[i].pc \in {"commit", "submit"}
             /\ runs[j].pc \in {"commit", "submit"}
             /\ PayloadOf(runs[i]) = PayloadOf(runs[j]))
            => /\ OnchainMeta(runs[i]) = OnchainMeta(runs[j])
               /\ CommitmentHash(runs[i]) = CommitmentHash(runs[j]))
C18_Witness ==
    /\ Len(runs) = 2
    /\ runs[1].pc = "done" /\ runs[1].appended = 1
    /\ runs[2].pc = "done" /\ runs[2].appended = 1
    /\ runs[1].meta.document_hash = runs[2].meta.document_hash
    /\ runs[1].meta.upload_date # runs[2].meta.upload_date
    /\ DOMAIN runs[1].meta # DOMAIN runs[2].meta
    /\ Last(runs[1].meta.validations).type = "asa_mint"
    /\ Last(runs[2].meta.validations).type = "asa_mint"
    /\ Last(runs[1].meta.validations).timestamp # Last(runs[2].meta.validations).timestamp
    /\ Last(runs[1].meta.validations).metadata_sha256_hex
          = Last(runs[2].meta.validations).metadata_sha256_hex

(* ------------------------ properties: the listing ----------------------- *)
\* The documents stored in a namespace that have a sidecar: the content
\* files, by their path relative to the namespace root.
DocumentsWithSidecar(fs, sid) ==
    {SubSeq(p, Len(RootResolved(sid)) + 1, Len(p)) :
        p \in {q \in DOMAIN fs.f :
                 /\ IsPrefix(RootResolved(sid), q) /\ q # RootResolved(sid)
                 /\ fs.f[q].kind = "bytes"
                 /\ IsFile(fs, SidecarOf(q)) /\ IsJson(fs.f[SidecarOf(q)])}}
RecordOf(fs, sid, rel) == fs.f[SidecarOf(Abs(sid, rel))].obj

\* C19: the listing of a namespace has exactly one entry for every stored
\* document that has a sidecar, under the content file's relative path and
\* with the document's record as its value, and no entry for anything else;
\* listing a namespace whose directory does not exist fails with NotFound.
C19_ListingIsTheDocuments ==
    \A sid \in ListInputs :
        LET r == storage_list_all(FS, sid)
        IN  IF ~IsDir(FS, RootResolved(sid)) THEN r.result = "NotFound"
            ELSE /\ r.result = "ok"
                 /\ {e.key : e \in r.entries} = DocumentsWithSidecar(FS, sid)
                 /\ \A e \in r.entries : e.value = RecordOf(FS, sid, e.key)
                 /\ \A e1, e2 \in r.entries : e1.key = e2.key => e1 = e2

(* ----------------------- properties: the type field -------------------- *)
LowerCased(t) == CASE t = ".txt" -> "txt" [] t = ".TXT" -> "txt"
ExtensionInLowercase(n) ==
    IF Len(n) > 1 /\ Last(n) \in ExtTokens THEN LowerCased(Last(n)) ELSE "unknown"

\* C20: the file_type an accepted upload stores is the extension of the file
\* name in lowercase, or "unknown" when the name has no extension.
C20_TypeIsLowercaseExtension ==
    [][(last'.op = "upload" /\ last'.result = "ok")
       => QueryOf(FSAfter, last'.req).data.file_type
             = ExtensionInLowercase(Last(last'.req.file_name))]_vars

(* ------------------ properties: scenario 2 and scenario 3 --------------- *)
\* A scenario-2 or scenario-3 body with only the enabled network and content
\* that decodes.
WellFormedScenarioRequest(req) ==
    /\ req.document_base64.valid
    /\ \A i \in 1..Len(req.selected_chain) :
           req.selected_chain[i] \in {"algo", "ALGO", "Algo"}

\* C21: a scenario-2 or scenario-3 notarize request with only the enabled
\* network and valid Base64 content stores the document and its sidecar
\* under DATA/<storage_id>/ and answers success=true with the computed
\* size, type and upload date.
C21_ScenarioUploadStores ==
    [][(last'.op \in {"upload2", "upload3"} /\ WellFormedScenarioRequest(last'.req))
        => LET req == last'.req
               doc == Cwd \o RootOf(req.storage_id) \o req.file_name
               sidecar == Cwd \o RootOf(req.storage_id)
                              \o WithSuffix(req.file_name, <<MJ>>)
           IN  /\ last'.result = "ok"
               /\ IsFile(FSAfter, doc)
               /\ FSAfter.f[doc] = Bytes(req.document_base64.bytes)
               /\ IsFile(FSAfter, sidecar)
               /\ last'.response.success
               /\ last'.response.file_weight = Len(req.document_base64.bytes)
               /\ last'.response.file_type = FileType(Last(req.file_name))
               /\ last'.response.upload_date = clock]_vars

(* ------------------ properties: runs against requests ------------------- *)
RunKey(run) ==
    SubSeq(ContentPath(run), Len(RootResolved(run.storage_id)) + 1,
           Len(ContentPath(run)))

\* C22: a run whose document was deleted, renamed or moved away while the
\* run was in flight never re-creates files under the deleted or old path:
\* its steps leave no sidecar and no artifact at a path that has no content
\* file, and add no entry for that path to the listing of the namespace; so
\* once both have finished none of them exists.
C22_RunsDoNotRecreate ==
    [][\A i \in 1..Len(runs) :
         (/\ last'.op = "run"
          /\ last'.run = i
          /\ ~IsFile(FS, ContentPath(runs[i])))
         => /\ IsFile(FSAfter, SidecarOf(ContentPath(runs[i])))
               => IsFile(FS, SidecarOf(ContentPath(runs[i])))
            /\ IsFile(FSAfter, ArtifactOf(ContentPath(runs[i])))
               => IsFile(FS, ArtifactOf(ContentPath(runs[i])))
            /\ RunKey(runs[i]) \in ListedKeys(FSAfter, runs[i].storage_id)
               => RunKey(runs[i]) \in ListedKeys(FS, runs[i].storage_id)]_vars

\* The entry a finished run appended, and the entries of a record.
EntryOf(run) == run.meta.validations[Len(run.meta.validations)]
Entries(record) == {record.validations[k] : k \in 1..Len(record.validations)}

\* Run i read the record of the document before run j appended its entry to
\* it: both read the record of the same upload, j has finished, and what i
\* holds in memory lacks the entry of j.  Run i was therefore in flight when
\* j wrote.
Overlapped(i, j) ==
    /\ i # j
    /\ runs[i].pc = "submit"
    /\ runs[j].pc = "done" /\ runs[j].appended = 1
    /\ runs[i].storage_id = runs[j].storage_id
    /\ runs[i].relative_path = runs[j].relative_path
    /\ runs[i].loaded.upload_date = runs[j].loaded.upload_date
    /\ EntryOf(runs[j]) \notin Entries(runs[i].loaded)

\* C23: when two runs for the same document overlap in time, the entry of
\* each of them is in the document's record after both have finished: the
\* read-append-write of one run does not overwrite the entry the other run
\* appended.
C23_OverlappingRunsKeepBothEntries ==
    [][\A i, j \in 1..Len(runs) :
         (/\ Overlapped(i, j)
          /\ last'.op = "run" /\ last'.step = "submit" /\ last'.run = i
          /\ runs'[i].appended = 1)
         => LET record == files'[SidecarOf(ContentPath(runs[i]))].obj
            IN  /\ EntryOf(runs[j]) \in Entries(record)
                /\ EntryOf(runs'[i]) \in Entries(record)]_vars

(* ------------------- properties: the order of a run --------------------- *)
\* The steps of a run that call the remote transaction service: the
\* construction of the manager (login, app lookup, credential, address,
\* funding) and create_asset (funding, submission).
RemoteSteps == {"boot", "submit"}

\* C24: in every run the commitment artifact is on disk before the run makes
\* its first call to the remote transaction service, so after a run that
\* fails remotely the artifact of the document is on disk.
C24_ArtifactBeforeRemoteCalls ==
    [][\A i \in 1..Len(runs) :
         (last'.op = "run" /\ last'.run = i /\ last'.step \in RemoteSteps)
         => /\ IsFile(FS, ArtifactOf(ContentPath(runs[i])))
            /\ IsFile(FSAfter, ArtifactOf(ContentPath(runs[i])))]_vars

\* C25: the bytes of the persisted commitment artifact hash (SHA-256) to the
\* commitment hash the run records in its Success entry (the recorded length
\* being the length of the hashed bytes), so a verifier who downloads only
\* the artifact can re-hash it and obtain the recorded value.
C25_ArtifactHashesToRecordedValue ==
    [][\A i \in 1..Len(runs) :
         (/\ last'.op = "run" /\ last'.run = i /\ last'.step = "submit"
          /\ last'.result = "asa_mint"
          /\ runs'[i].appended = 1)
         => /\ IsFile(FSAfter, ArtifactOf(ContentPath(runs[i])))
            /\ Sha256(files'[ArtifactOf(ContentPath(runs[i]))])
                  = EntryOf(runs'[i]).metadata_sha256_hex]_vars

(* ------------------- properties: the manager bootstrap ------------------ *)
\* The remote calls of each step of the construction, and the step after it.
StageCalls(pc) ==
    CASE pc = "login" -> {"login"}
      [] pc = "dapp" -> {"create_dapp", "get_dapp_keys"}
      [] pc = "jwt" -> {"jwt_generation"}
      [] pc = "wallet" -> {"get_addresses_by_jwt", "algo_address_generation"}
      [] pc = "funding" -> {"blockchain_info", "algo_algos_dispenser"}
      [] OTHER -> {}
Following(pc) ==
    CASE pc = "idle" -> "login"
      [] pc = "login" -> "dapp"
      [] pc = "dapp" -> "jwt"
      [] pc = "jwt" -> "wallet"
      [] pc = "wallet" -> "funding"
      [] pc = "funding" -> "ready"
      [] OTHER -> pc
\* The calls a manager made in the step just taken.
NewCalls(id) ==
    SubSeq(b4'.mgrs[id].calls, Len(b4.mgrs[id].calls) + 1, Len(b4'.mgrs[id].calls))
CallNames(calls) == [k \in 1..Len(calls) |-> calls[k].call]
Refused(c) ==
    /\ c.call # "blockchain_info"
    /\ c.outcome \in {"error", "no_access_token", "rejected"}

\* C26: constructing the manager performs login, app binding, credential
\* issuance, address binding and the funding loop in exactly this order: the
\* remote calls of a step start only after the previous step has succeeded,
\* a step that fails raises and no remote call of a later step is made, and
\* the manager never returns to an earlier state.
C26_BootstrapInOrder ==
    [][\A id \in Managers :
         /\ IsPrefix(b4.mgrs[id].calls, b4'.mgrs[id].calls)
         /\ \A k \in 1..Len(NewCalls(id)) :
               NewCalls(id)[k].call \in StageCalls(b4.mgrs[id].pc)
         /\ b4'.mgrs[id].pc \in {b4.mgrs[id].pc, Following(b4.mgrs[id].pc), "failed"}
         /\ b4.mgrs[id].pc \in {"ready", "failed"} => b4'.mgrs[id] = b4.mgrs[id]
         /\ (\E k \in 1..Len(NewCalls(id)) : Refused(NewCalls(id)[k]))
               => b4'.mgrs[id].pc = "failed"]_vars
C26_Witness ==
    /\ b4.mgrs["A"].pc = "failed"
    /\ CallNames(b4.mgrs["A"].calls) = <<"login", "get_dapp_keys", "jwt_generation">>
    /\ b4.mgrs["B"].pc = "ready"
    /\ \A pc \in {"login", "dapp", "jwt", "wallet", "funding"} :
          \E k \in 1..Len(b4.mgrs["B"].calls) : b4.mgrs["B"].calls[k].call \in StageCalls(pc)

\* A step of the construction of manager id.
StepTaken(id, step) ==
    last'.op = "manager" /\ last'.mgr = id /\ last'.step = step
Count(calls, name) == Cardinality({k \in 1..Len(calls) : calls[k].call = name})
\* The service answered every call as documented.
Honest(calls) ==
    \A k \in 1..Len(calls) :
        calls[k].outcome \notin {"error", "hidden", "no_token", "no_access_token",
                                 "empty_token", "omitted_created",
                                 "omitted_not_created", "rejected"}
\* What the service has handed to the client of a manager so far.
Answer(calls, name, outcome) ==
    \E k \in 1..Len(calls) : calls[k].call = name /\ calls[k].outcome = outcome
AccessTokenIssued(id) == Answer(b4.mgrs[id].calls, "jwt_generation", "token")
SessionTokenIssued(id) == Answer(b4.mgrs[id].calls, "login", "token")
\* self.state holds an application name and a bound address with its label.
HoldsIdentity(state) ==
    /\ Has(state, "app_name") /\ Has(state, "address") /\ Has(state, "label")
StillListed(w, state) ==
    /\ state.app_name \in w.apps
    /\ \E k \in 1..Len(w.addresses) :
          w.addresses[k].address = state.address /\ w.addresses[k].app = state.app_name

\* C27: bootstrap resumes from the persisted state: when it holds an
\* application name and a bound address with its label that the service
\* still lists, bootstrap sends no application-creation request and no
\* address-generation request and stays bound to the same application and
\* address; two bootstraps in a row against a service that keeps its state
\* create at most one application and one address in total.
C27_BootstrapResumes ==
    /\ [][\A id \in Managers :
             (/\ HoldsIdentity(b4.mgrs[id].state)
              /\ StillListed(b4.w, b4.mgrs[id].state)
              /\ Honest(b4'.mgrs[id].calls))
             => /\ StepTaken(id, "dapp")
                   => /\ Count(NewCalls(id), "create_dapp") = 0
                      /\ b4'.mgrs[id].pc = "jwt"
                      /\ b4'.mgrs[id].state.app_name = b4.mgrs[id].state.app_name
                /\ StepTaken(id, "wallet")
                   => /\ Count(NewCalls(id), "algo_address_generation") = 0
                      /\ b4'.mgrs[id].pc = "funding"
                      /\ b4'.mgrs[id].state.app_name = b4.mgrs[id].state.app_name
                      /\ b4'.mgrs[id].state.address = b4.mgrs[id].state.address
                      /\ b4'.mgrs[id].state.label = b4.mgrs[id].state.label]_vars
    /\ []((/\ \A id \in Managers : b4.mgrs[id].pc = "ready"
           /\ Honest(b4.mgrs["A"].calls \o b4.mgrs["B"].calls))
          => /\ Count(b4.mgrs["A"].calls \o b4.mgrs["B"].calls, "create_dapp") <= 1
             /\ Count(b4.mgrs["A"].calls \o b4.mgrs["B"].calls,
                      "algo_address_generation") <= 1)
C27_Witness ==
    /\ \A id \in Managers : b4.mgrs[id].pc = "ready"
    /\ Honest(b4.mgrs["A"].calls \o b4.mgrs["B"].calls)
    /\ Count(b4.mgrs["A"].calls, "create_dapp") = 1
    /\ Count(b4.mgrs["A"].calls, "algo_address_generation") = 1
    /\ Count(b4.mgrs["B"].calls, "create_dapp") = 0
    /\ Count(b4.mgrs["B"].calls, "algo_address_generation") = 0
    /\ b4.mgrs["B"].state.app_name = NewAppName("A")
    /\ b4.mgrs["B"].state.address = b4.mgrs["A"].state.address

\* The name app binding works with, and whether the service returns keys for
\* it to the k-th call of the step.
BindingName(id) ==
    IF Has(b4.mgrs[id].state, "app_name") THEN b4.mgrs[id].state.app_name
    ELSE NewAppName(id)
NoKeys(id, k) ==
    /\ NewCalls(id)[k].call = "get_dapp_keys"
    /\ \/ NewCalls(id)[k].outcome = "hidden"
       \/ /\ NewCalls(id)[k].outcome = "listed"
          /\ BindingName(id) \notin b4.w.apps
          /\ \A j \in 1..(k - 1) : NewCalls(id)[j] # [call |-> "create_dapp", outcome |-> "ok"]

\* C28: app binding first looks up the application registration by name;
\* only when the lookup returns no keys does it create the application and
\* fetch the keys once more; when keys are still absent after that one
\* create and re-fetch it fails, and then no app binding is persisted and no
\* credential or address request is made.
C28_LookupBeforeCreate ==
    [][\A id \in Managers :
         StepTaken(id, "dapp")
         => /\ CallNames(NewCalls(id)) \in
                  {<<>>, <<"get_dapp_keys">>, <<"get_dapp_keys", "create_dapp">>,
                   <<"get_dapp_keys", "create_dapp", "get_dapp_keys">>}
            /\ Len(NewCalls(id)) >= 2 => NoKeys(id, 1)
            /\ (Len(NewCalls(id)) = 3 /\ NoKeys(id, 3))
               => /\ b4'.mgrs[id].pc = "failed"
                  /\ b4'.w.config = b4.w.config
            /\ b4'.mgrs[id].pc = "failed" => b4'.w.config = b4.w.config]_vars

\* The rows the service lists for the application of manager id, before and
\* after the step, and whether the bound address is among the former.
RowsBefore(id) ==
    {k \in 1..Len(b4.w.addresses) :
        b4.w.addresses[k].app = b4.mgrs[id].state.app_name}
RowsAfter(id) ==
    {k \in 1..Len(b4'.w.addresses) :
        b4'.w.addresses[k].app = b4.mgrs[id].state.app_name}
MostRecent(rows) == CHOOSE k \in rows : \A j \in rows : j <= k
BoundAddressListed(id) ==
    /\ Has(b4.mgrs[id].state, "address") /\ Has(b4.mgrs[id].state, "label")
    /\ \E k \in RowsBefore(id) : b4.w.addresses[k].address = b4.mgrs[id].state.address
Reused(id) ==
    /\ b4'.mgrs[id].pc = "funding"
    /\ b4'.mgrs[id].state = b4.mgrs[id].state
    /\ Count(NewCalls(id), "algo_address_generation") = 0
    /\ b4'.w = b4.w
Generation(id) ==
    NewCalls(id)[CHOOSE k \in 1..Len(NewCalls(id)) :
                    NewCalls(id)[k].call = "algo_address_generation"]

\* C29: address binding reuses the previously bound address exactly when it
\* is still in the listing of the service; otherwise it requests one new
\* address and binds the address that request returns or, when the response
\* omits it, the most recent entry of the listing; when the listing is then
\* empty it fails and the persisted bound address is left unchanged.
C29_AddressBinding ==
    [][\A id \in Managers :
         (/\ StepTaken(id, "wallet")
          /\ AccessTokenIssued(id)
          /\ \A k \in 1..Len(NewCalls(id)) : NewCalls(id)[k].outcome # "error")
         => /\ Reused(id) <=> BoundAddressListed(id)
            /\ ~BoundAddressListed(id)
               => /\ Count(NewCalls(id), "algo_address_generation") = 1
                  /\ Generation(id).outcome = "address"
                     => /\ b4'.mgrs[id].pc = "funding"
                        /\ b4'.mgrs[id].state.address = NewAddress(b4.w)
                        /\ b4'.w.config = b4'.mgrs[id].state
                  /\ (Generation(id).outcome # "address" /\ RowsAfter(id) # {})
                     => /\ b4'.mgrs[id].pc = "funding"
                        /\ b4'.mgrs[id].state.address =
                              b4'.w.addresses[MostRecent(RowsAfter(id))].address
                        /\ b4'.w.config = b4'.mgrs[id].state
                  /\ (Generation(id).outcome # "address" /\ RowsAfter(id) = {})
                     => /\ b4'.mgrs[id].pc = "failed"
                        /\ b4'.w.config = b4.w.config]_vars
C29_Witness ==
    /\ last.op = "manager" /\ last.step = "wallet" /\ last.result = "ok"
    /\ b4.mgrs["A"].pc = "funding"
    /\ b4.mgrs["A"].state.address = AddressOld
    /\ Count(b4.mgrs["A"].calls, "algo_address_generation") = 1
    /\ b4.w.config.address = AddressOld
    /\ b4.mgrs["B"].pc = "idle"

\* Manager id has persisted its app binding, and its address binding, and is
\* still held by its run.
PersistedApp(id) == b4.mgrs[id].pc \in {"jwt", "wallet", "funding", "ready"}
PersistedAddress(id) == b4.mgrs[id].pc \in {"funding", "ready"}
Constructing(m) == m.pc \in {"login", "dapp", "jwt", "wallet", "funding"}

\* C30: two runs that overlap share no mutable identity or wallet state:
\* the app binding, the credential and the bound address one run uses and
\* persists are not read, replaced or overwritten by the other run, and
\* each run submits with an address and label of the app it bound itself.
C30_RunsShareNoIdentityState ==
    /\ [][\A id \in Managers :
            StepTaken(id, "load")
            => \A o \in Managers \ {id} :
                  (Constructing(b4.mgrs[o]) /\ PersistedApp(o))
                  => b4'.mgrs[id].state # b4.mgrs[o].state]_vars
    /\ [](\A id \in Managers :
            /\ PersistedApp(id)
               => b4.w.config.app_name = b4.mgrs[id].state.app_name
            /\ PersistedAddress(id)
               => /\ b4.w.config.address = b4.mgrs[id].state.address
                  /\ b4.w.config.label = b4.mgrs[id].state.label
                  /\ \E k \in 1..Len(b4.w.addresses) :
                        /\ b4.w.addresses[k].address = b4.mgrs[id].state.address
                        /\ b4.w.addresses[k].app = b4.mgrs[id].state.app_name)

(* ------------------------ properties: the issuance ---------------------- *)
Issued == last'.op = "run" /\ last'.step = "issue"
AnnotationFields == {"note", "metadata_url", "metadata"}
Roles == {"manager_address", "reserve_address", "freeze_address", "clawback_address"}
Carries(txn, text) == \E f \in AnnotationFields : txn[f] = text
\* Run i with the record that is on disk when it starts.
Starting(i) == [runs[i] EXCEPT !.meta = sim_read(FS, runs[i])]

\* C31: each notarization run submits at most one asset-issuance
\* transaction; that transaction has total 1 and 0 decimals, has the wallet's
\* bound address as sender and in the manager, reserve, freeze and clawback
\* roles, and carries the commitment hash and the URL of the commitment
\* artifact in its annotation fields.
C31_OneIndivisibleIssuance ==
    [][Issued =>
         LET run == Starting(last'.run)
             sent == last'.sent
         IN  /\ Len(sent) <= 1
             /\ \A k \in 1..Len(sent) :
                   /\ sent[k].total = 1 /\ sent[k].decimals = 0
                   /\ sent[k].sender_address = CreatorAddress
                   /\ \A role \in Roles : sent[k][role] = CreatorAddress
                   /\ \/ Carries(sent[k], HexDigest(CommitmentHash(run)))
                      \/ Carries(sent[k], B64Digest(CommitmentHash(run)))
                   /\ Carries(sent[k], build_onchain_metadata_url(
                                           run.storage_id, run.relative_path))]_vars

\* The backend answered the request of this step with a response.
Answered == Issued /\ last'.sent # <<>> /\ last'.backend.kind = "response"
\* The identifier the first matching strategy yields, <<>> when none matches.
FirstMatch(resp) ==
    IF "asset-index" \in DOMAIN resp THEN <<resp["asset-index"]>>
    ELSE IF "asset_id" \in DOMAIN resp THEN <<resp["asset_id"]>>
    ELSE IF "asset" \in DOMAIN resp /\ "index" \in DOMAIN resp["asset"]
         THEN <<resp["asset"]["index"]>>
    ELSE <<>>

\* C32: the asset identifier is taken from the backend response by the first
\* strategy that matches, in the order top-level "asset-index", top-level
\* "asset_id", "index" inside the mapping under "asset"; when none matches the
\* extraction fails and the run records an Error entry and no Success entry.
C32_ExtractionInOrder ==
    [][Answered =>
         LET run == runs[last'.run]
             q == SidecarOf(ContentPath(run))
             id == FirstMatch(last'.backend.resp)
         IN  /\ q \in Sidecars(files) /\ q \in Sidecars(files')
             /\ Front(files'[q].obj.validations) = files[q].obj.validations
             /\ id # <<>> =>
                   /\ Last(files'[q].obj.validations).type = "asa_mint"
                   /\ Last(files'[q].obj.validations).asset_id = id[1]
             /\ id = <<>> => IsErrorEntry(Last(files'[q].obj.validations))]_vars
C32_Witness ==
    /\ last.op = "run" /\ last.step = "issue" /\ last.sent # <<>>
    /\ last.backend.kind = "response"
    /\ DOMAIN last.backend.resp = {"asset-index", "asset_id"}
    /\ LET q == SidecarOf(ContentPath(runs[last.run]))
       IN  /\ q \in Sidecars(files)
           /\ Last(files[q].obj.validations).type = "asa_mint"
           /\ Last(files[q].obj.validations).asset_id = last.backend.resp["asset-index"]
           /\ last.backend.resp["asset-index"] # last.backend.resp["asset_id"]

\* The balance the funding loop of this step observed last.
LastObserved(ev) == ev[CHOOSE k \in Reads(ev) : \A j \in Reads(ev) : j <= k].n

\* C39: a notarization run submits the asset-issuance transaction only if
\* the last balance observed by the funding loop that precedes the submission
\* was at least min_balance; a run whose funding loop ended below the
\* threshold submits nothing.
C39_SubmitsOnlyWhenFunded ==
    [][Issued =>
         /\ Reads(last'.events) # {}
         /\ last'.sent # <<>> => LastObserved(last'.events) >= DEFAULT_MIN_BALANCE
         /\ LastObserved(last'.events) < DEFAULT_MIN_BALANCE => last'.sent = <<>>]_vars

(* ---------------------- properties: the fingerprint --------------------- *)
Fingerprinted(f) == {q \in Sidecars(f) : Has(f[q].obj, "document_hash")}

\* C33: a notarization run never changes a fingerprint that is already
\* present in the MetadataRecord; only when the fingerprint is absent does it
\* compute it from the stored content bytes and persist it before building
\* the commitment, and when the content cannot be read the run stops without
\* any call to the transaction service.
C33_FingerprintKeptByRuns ==
    [][last'.op = "run" =>
         /\ \A q \in Fingerprinted(files) :
               q \in Sidecars(files')
               => /\ Has(files'[q].obj, "document_hash")
                  /\ files'[q].obj.document_hash = files[q].obj.document_hash
         /\ \A q \in Sidecars(files') \ Fingerprinted(files) :
               q \in Sidecars(files) /\ Has(files'[q].obj, "document_hash")
               => /\ last'.step \in {"load", "whole", "issue"}
                  /\ Front(q) \o <<Front(Last(q))>> \in DOMAIN files
                  /\ files'[q].obj.document_hash
                        = Sha256(files[Front(q) \o <<Front(Last(q))>>])
         /\ last'.result = "no_content"
               => ledger' = ledger /\ runs'[last'.run].pc = "done"]_vars

\* The content file a sidecar stands next to.
ContentOf(q) == Front(q) \o <<Front(Last(q))>>

\* C35: in every state reachable by upload, rename, move, delete,
\* resynchronization and notarization, the fingerprint in each metadata
\* sidecar equals the SHA-256 of the content file stored next to it.
C35_FingerprintMatchesContent ==
    \A q \in Fingerprinted(files) :
        ContentOf(q) \in DOMAIN files
        => files[q].obj.document_hash = Sha256(files[ContentOf(q)])

\* The content files on disk: what an upload stored and no request removed.
StoredDocuments(f) == {p \in DOMAIN f : f[p].kind = "bytes"}

\* C36: in every state reachable by the storage operations, each document
\* that was uploaded and not deleted has its metadata sidecar next to it: no
\* rename, move or delete request, including one whose path names a sidecar
\* or a commitment artifact, leaves a content file without its sidecar.
C36_EveryDocumentHasItsSidecar ==
    \A p \in StoredDocuments(files) : SidecarOf(p) \in Sidecars(files)

\* An accepted rename or move of a file onto the name of another file.
OntoExisting(l) ==
    /\ l.op \in {"rename", "move"} /\ l.result = "ok"
    /\ IsFile(FS, OldPath(l)) /\ IsFile(FS, NewPath(l))
    /\ NewPath(l) # OldPath(l)

\* C37: a rename or move whose destination name already exists in the target
\* folder never mixes two documents: after the call the content file, the
\* sidecar and the commitment artifact found at the destination belong to
\* one document, the sidecar's fingerprint and the artifact's hash field
\* both being the SHA-256 of the content at the destination.
C37_DestinationHoldsOneDocument ==
    [][OntoExisting(last') =>
         LET dst == NewPath(last')
         IN  /\ IsFile(FSAfter, dst)
             /\ SidecarOf(dst) \in Fingerprinted(files')
                   => files'[SidecarOf(dst)].obj.document_hash = Sha256(files'[dst])
             /\ (IsFile(FSAfter, ArtifactOf(dst)) /\ IsJson(files'[ArtifactOf(dst)]))
                   => files'[ArtifactOf(dst)].obj.hash = Sha256(files'[dst])]_vars

\* Run i is about to start and there is no record to read at the path of
\* its sidecar: no file, or a file that is not JSON.
StartsWithoutRecord(i) ==
    /\ last'.op = "run" /\ last'.run = i
    /\ runs[i].pc = "queued"
    /\ LET q == SidecarOf(ContentPath(runs[i]))
       IN  q \notin DOMAIN files \/ files[q].kind # "json"

\* C40: a notarization run for a path whose metadata sidecar is missing or
\* unreadable ends without any call to the transaction service and without
\* creating or changing any file.
C40_NoRecordNoEffect ==
    [][\A i \in 1..Len(runs) :
         StartsWithoutRecord(i)
         => /\ files' = files /\ dirs' = dirs
            /\ ledger' = ledger
            /\ runs'[i].pc = "done" /\ runs'[i].appended = 0]_vars
C40_Witness ==
    /\ last.op = "run" /\ last.result = "ended"
    /\ runs[last.run].pc = "done" /\ runs[last.run].appended = 0
    /\ ledger = 0
    /\ SidecarOf(ContentPath(runs[last.run])) \notin DOMAIN files
    /\ ContentPath(runs[last.run]) \notin DOMAIN files
    /\ nMut > 0

(* ------------------- properties: the service client -------------------- *)
BearerEndpoints ==
    {"get_addresses_by_jwt", "algo_address_generation", "algo_algos_dispenser"}
SessionEndpoints == {"create_dapp", "jwt_generation"}

====
